---------------------------- MODULE Spec2Model ----------------------------
(***************************************************************************)
(* Inventory-Sys: the inventory ledger and the workflows that mutate it    *)
(* (sales, manual adjustments, stock transfers, purchase orders).          *)
(*                                                                         *)
(* Every HTTP handler is an async coroutine.  A handler runs without       *)
(* interruption between two awaits on the persistence layer, and another   *)
(* request may run at every such await.  A handler is therefore modelled   *)
(* as a sequence of atomic steps, one per database operation, each step    *)
(* carrying the local computation and the checks that follow the           *)
(* operation.  Documents read from the database are local copies; save()   *)
(* writes the whole local copy back over the stored document.              *)
(*                                                                         *)
(* Reads of the catalogue (Product.get, Branch.get) sit in the same step   *)
(* as the inventory read next to them.  Identifiers are compared after     *)
(* str(), which the model takes to agree with the stored identifier.       *)
(* Money is a whole number of currency units.                              *)
(***************************************************************************)
EXTENDS Integers, Sequences, FiniteSets, TLC

(***************************************************************************)
(* Bounds of the model.                                                    *)
(***************************************************************************)
MaxRequests == 4      \* requests started in one behaviour
MaxStock == 2         \* largest quantity of a seeded inventory record
MaxQty == 2           \* largest quantity a request names on one line

Products == {1, 2}
Branches == {1, 2}
NoBranch == 0
Req == {1, 2}         \* request slots: at most two requests in flight

ADMIN == "System Administrator"
FINANCE == "Finance Manager"
PURCHASE == "Purchase Manager"
STORE_MANAGER == "Store Manager"
STORE_STAFF == "Store Staff"
SALES_STAFF == "Sales Staff"
UserRole == {ADMIN, FINANCE, PURCHASE, STORE_MANAGER, STORE_STAFF, SALES_STAFF}

Users == [role : UserRole, branch_id : Branches \cup {NoBranch}]
NoUser == [role |-> "none", branch_id |-> NoBranch]

VARIABLES
    inventory,        \* the "inventory" collection: a sequence of documents
    products,         \* ids of the products in the catalogue
    sales,            \* the "sales" collection
    adjustment_logs,  \* the AdjustmentLog collection
    purchase_orders,  \* the "purchase_orders" collection
    stock_transfers,  \* the "stock_transfers" collection
    req,              \* per request slot: the handler's position and locals
    last,             \* the request that answered last, with its result
    nreq,             \* number of requests started so far
    failed,           \* history: some request has answered with an error
    applied,          \* history: per cause and key, the sum of the deltas
                      \* the handlers meant to apply to the ledger
    users             \* the "users" collection

vars == <<inventory, products, sales, adjustment_logs, purchase_orders,
          stock_transfers, req, last, nreq, failed, applied, users>>

db == <<inventory, products, sales, adjustment_logs, purchase_orders,
        stock_transfers>>

(***************************************************************************)
(* Helpers.                                                                *)
(***************************************************************************)
Min(S) == CHOOSE x \in S : \A y \in S : x <= y

RECURSIVE SumSeq(_)
SumSeq(s) == IF s = <<>> THEN 0 ELSE Head(s) + SumSeq(Tail(s))

\* A query that filters on the branch only.
FindOneOfBranch(p, b) ==
    LET S == {k \in DOMAIN inventory : inventory[k].branch_id = b}
    IN  IF S = {} THEN 0 ELSE CHOOSE x \in S : \A y \in S : x <= y

\* Inventory.find_one({"product_id": p, "branch_id": b}): the id (index) of
\* the first matching document, 0 when there is none.
FindOne(p, b) ==
    LET S == {k \in DOMAIN inventory :
                 inventory[k].product_id = p /\ inventory[k].branch_id = b}
    IN  IF S = {} THEN 0 ELSE Min(S)

\* The same on a given state of the collection, and the quantity found.
FindOneIn(inv, p, b) ==
    LET S == {k \in DOMAIN inv :
                 inv[k].product_id = p /\ inv[k].branch_id = b}
    IN  IF S = {} THEN 0 ELSE Min(S)

QuantityIn(inv, p, b) ==
    IF FindOneIn(inv, p, b) = 0 THEN 0 ELSE inv[FindOneIn(inv, p, b)].quantity

NoInventory == [id |-> 0, quantity |-> 0]
NoDoc == [status |-> "none"]

Causes == {"init", "sale", "cancel", "adjust", "ship", "receive", "po"}
Counts == {"ship_n"}
Ids == 0 .. (MaxRequests + 1)

\* The history of intended ledger deltas, by cause, entity, product, branch.
Record(cause, id, p, b, d) ==
    [applied EXCEPT ![<<cause, id, p, b>>] = @ + d]

\* The same for a shipment, which also counts the deductions made.
RecordShip(id, p, b, d) ==
    [applied EXCEPT ![<<"ship", id, p, b>>] = @ + d,
                    ![<<"ship_n", id, p, b>>] = @ + 1]

RECURSIVE SumApplied(_, _, _)
SumApplied(S, p, b) ==
    IF S = {} THEN 0
    ELSE LET c == CHOOSE c \in S : TRUE
         IN  applied[<<c[1], c[2], p, b>>] + SumApplied(S \ {c}, p, b)

\* The seeded stock of (p, b) plus every delta meant for it since.
AppliedTo(p, b) == SumApplied(Causes \X Ids, p, b)

\* The stored quantity of (p, b): that of the document find_one returns.
Quantity(p, b) ==
    IF FindOne(p, b) = 0 THEN 0 ELSE inventory[FindOne(p, b)].quantity

Quiescent == \A r \in Req : req[r].pc = "idle"

IdleReq ==
    [op |-> "none", pc |-> "idle", user |-> NoUser, id |-> 0,
     items |-> <<>>, discount |-> 0, amount_paid |-> 0, i |-> 0,
     inventory |-> NoInventory, doc |-> NoDoc, sale_items |-> <<>>,
     subtotal |-> 0, reason |-> "", text |-> <<>>,
     result |-> "", writes |-> 0, before |-> <<>>, email |-> 0,
     token |-> <<>>, new_password |-> 0, active |-> FALSE]

\* A request starts in the first slot that holds no running handler.
Free(r) ==
    /\ req[r].pc = "idle"
    /\ \A q \in Req : q < r => req[q].pc # "idle"
    /\ nreq < MaxRequests

\* The handler returns (result "ok") or raises HTTPException (anything else).
\* What the request was and what it wrote is kept with the result.
Finished(r, result) ==
    [IdleReq EXCEPT !.op = req[r].op, !.pc = "done", !.user = req[r].user,
                    !.id = req[r].id, !.items = req[r].items,
                    !.discount = req[r].discount,
                    !.amount_paid = req[r].amount_paid,
                    !.reason = req[r].reason,
                    !.text = req[r].text, !.email = req[r].email,
                    !.token = req[r].token,
                    !.new_password = req[r].new_password,
                    !.active = req[r].active,
                    !.result = result, !.writes = req[r].writes]

\* get_password_hash: the bcrypt digest of the password.
get_password_hash(password) == <<"bcrypt", password>>

\* The administrator who sends the invitations.
AdminAccount ==
    [user_id |-> 0, email |-> 0, role |-> ADMIN, branch_id |-> NoBranch,
     hashed_password |-> get_password_hash(0), is_active |-> TRUE]

Init ==
    /\ inventory \in
         {<<>>} \cup
         { <<[product_id |-> 1, branch_id |-> 1, quantity |-> q]>> :
              q \in 0 .. MaxStock } \cup
         { <<[product_id |-> 1, branch_id |-> 1, quantity |-> q1],
             [product_id |-> 2, branch_id |-> 1, quantity |-> q2]>> :
              q1 \in 1 .. MaxStock, q2 \in 1 .. MaxStock } \cup
         { <<[product_id |-> 1, branch_id |-> 1, quantity |-> q],
             [product_id |-> 1, branch_id |-> 2, quantity |-> 1]>> :
              q \in 1 .. MaxStock }
    /\ products = Products
    /\ sales = <<>>
    /\ adjustment_logs = <<>>
    /\ purchase_orders = <<>>
    /\ stock_transfers = <<>>
    /\ req = [r \in Req |-> IdleReq]
    /\ last = IdleReq
    /\ nreq = 0
    /\ failed = FALSE
    /\ users = {AdminAccount}
    /\ applied = [k \in (Causes \cup Counts) \X Ids \X Products \X Branches |->
                    IF k[1] = "init" /\ k[2] = 0 /\ FindOne(k[3], k[4]) # 0
                      THEN inventory[FindOne(k[3], k[4])].quantity ELSE 0]

\* One step of request r takes its slot to nr; a handler that has answered
\* leaves its slot and its answer becomes the last one.
Step(r, nr) ==
    /\ nreq' = nreq
    /\ IF nr.pc = "done"
         THEN /\ req' = [req EXCEPT ![r] = IdleReq]
              /\ last' = nr
              /\ failed' = (failed \/ nr.result # "ok")
         ELSE /\ req' = [req EXCEPT ![r] = nr]
              /\ UNCHANGED <<last, failed>>

\* The arrival of a request is a step that counts one more request.
Arrive(r, nr) ==
    /\ nreq' = nreq + 1
    /\ IF nr.pc = "done"
         THEN /\ req' = [req EXCEPT ![r] = IdleReq]
              /\ last' = [nr EXCEPT !.before = <<>>]
              /\ failed' = (failed \/ nr.result # "ok")
         ELSE /\ req' = [req EXCEPT ![r] = nr]
              /\ UNCHANGED <<last, failed>>

\* A new request; "before" remembers the inventory collection it arrived at,
\* for as long as the handler runs.
New(op, user) ==
    [IdleReq EXCEPT !.op = op, !.pc = "start", !.user = user,
                    !.before = inventory]

(***************************************************************************)
(* POST /inventory/adjust                                                  *)
(***************************************************************************)
AdjustmentReasons == {"damaged", "expired", "theft", "internal_use", "other"}

\* StockAdjustmentSchema: quantity > 0, reason one of the literals.
StockAdjustmentSchema(quantity, reason) ==
    quantity > 0 /\ reason \in AdjustmentReasons

\* An AdjustmentLog entry.
AdjustmentLog(branch_id, product_id, user_id, quantity_removed, reason) ==
    [branch_id |-> branch_id, product_id |-> product_id, user_id |-> user_id,
     quantity_removed |-> quantity_removed, reason |-> reason]

\* Arrival: schema validation, role check, branch check.
adjust_stock_start(r, user, product_id, quantity, reason) ==
    /\ Free(r)
    /\ LET n == [New("adjust_stock", user) EXCEPT
                    !.items = <<[product_id |-> product_id,
                                 quantity |-> quantity]>>,
                    !.reason = reason]
       IN  Arrive(r,
             IF ~StockAdjustmentSchema(quantity, reason)
               THEN [n EXCEPT !.pc = "done", !.result = "ValidationError"]
             ELSE IF user.role # STORE_MANAGER
               THEN [n EXCEPT !.pc = "done", !.result = "Forbidden"]
             ELSE IF user.branch_id = NoBranch
               THEN [n EXCEPT !.pc = "done", !.result = "BadRequest"]
             ELSE [n EXCEPT !.pc = "find_inventory"])
    /\ UNCHANGED <<db, applied, users>>

\* Inventory.find_one, then the stock check and the local decrement.
adjust_stock_find(r) ==
    /\ req[r].op = "adjust_stock" /\ req[r].pc = "find_inventory"
    /\ LET data == req[r].items[1]
           k == FindOne(data.product_id, req[r].user.branch_id)
       IN  Step(r,
             IF k = 0 THEN Finished(r, "NotFound")
             ELSE IF inventory[k].quantity < data.quantity
               THEN Finished(r, "InsufficientStock")
             ELSE [req[r] EXCEPT
                     !.inventory = [id |-> k,
                         quantity |-> inventory[k].quantity - data.quantity],
                     !.pc = "save_inventory"])
    /\ UNCHANGED <<db, applied, users>>

\* inventory.save(): the local copy replaces the stored document.
adjust_stock_save(r) ==
    /\ req[r].op = "adjust_stock" /\ req[r].pc = "save_inventory"
    /\ LET data == req[r].items[1]
           doc == req[r].inventory
       IN  /\ inventory' = [inventory EXCEPT ![doc.id].quantity = doc.quantity]
           /\ applied' = Record("adjust", 0, data.product_id,
                                req[r].user.branch_id, 0 - data.quantity)
    /\ Step(r, [req[r] EXCEPT !.pc = "save_log", !.writes = @ + 1])
    /\ UNCHANGED <<users, products, sales, adjustment_logs, purchase_orders,
                   stock_transfers>>

\* log.save(): the AdjustmentLog entry is appended, the handler returns.
adjust_stock_log(r) ==
    /\ req[r].op = "adjust_stock" /\ req[r].pc = "save_log"
    /\ LET data == req[r].items[1]
       IN  adjustment_logs' = Append(adjustment_logs,
               AdjustmentLog(req[r].user.branch_id, data.product_id,
                             req[r].user, data.quantity, req[r].reason))
    /\ Step(r, [Finished(r, "ok") EXCEPT !.writes = @ + 1])
    /\ UNCHANGED <<users, inventory, products, sales, purchase_orders,
                   stock_transfers, applied>>

adjust_stock(r) ==
    \/ adjust_stock_find(r)
    \/ adjust_stock_save(r)
    \/ adjust_stock_log(r)

(***************************************************************************)
(* POST /sales/  (create_sale)                                             *)
(***************************************************************************)
\* Product.price.  Both prices are multiples of 40, for which the tax below
\* is a whole number.
price == [p \in Products |-> IF p = 1 THEN 40 ELSE 200]

\* 7.5% VAT: subtotal * 0.075.
Tax(subtotal) == (subtotal * 75) \div 1000

\* SaleCreate: at least one item, every quantity > 0, discount >= 0,
\* amount_paid > 0.
SaleCreate(items, discount, amount_paid) ==
    /\ Len(items) >= 1
    /\ \A k \in DOMAIN items : items[k].quantity > 0
    /\ discount >= 0
    /\ amount_paid > 0

\* A stock check that also refuses a sale of all the stock.
InsufficientOrAll(available, wanted) == available <= wanted

\* "if inventory.quantity < item.quantity: raise".
Insufficient(available, wanted) == available < wanted

\* A discount check that lets every discount through.
DiscountNeverTooLarge(discount, subtotal) == FALSE

\* "if sale_data.discount > subtotal: raise".
DiscountTooLarge(discount, subtotal) == discount > subtotal

\* A payment check that lets every payment through.
PaymentNeverShort(amount_paid, total_amount) == FALSE

\* "if sale_data.amount_paid < total_amount: raise".
PaymentShort(amount_paid, total_amount) == amount_paid < total_amount

create_sale_start(r, user, items, discount, amount_paid) ==
    /\ Free(r)
    /\ LET n == [New("create_sale", user) EXCEPT
                    !.items = items, !.discount = discount,
                    !.amount_paid = amount_paid]
       IN  Arrive(r,
             IF ~SaleCreate(items, discount, amount_paid)
               THEN [n EXCEPT !.pc = "done", !.result = "ValidationError"]
             ELSE IF user.role \notin {SALES_STAFF, STORE_MANAGER}
               THEN [n EXCEPT !.pc = "done", !.result = "Forbidden"]
             ELSE IF user.branch_id = NoBranch
               THEN [n EXCEPT !.pc = "done", !.result = "BadRequest"]
             ELSE [n EXCEPT !.pc = "check_stock", !.i = 1])
    /\ UNCHANGED <<db, applied, users>>

\* Step 4, one line item: Product.get, Inventory.find_one, the stock check,
\* the line total.  After the last item, step 5: totals and their checks.
create_sale_check(r) ==
    /\ req[r].op = "create_sale" /\ req[r].pc = "check_stock"
    /\ LET item == req[r].items[req[r].i]
           k == FindOne(item.product_id, req[r].user.branch_id)
           line_total == item.quantity * price[item.product_id]
           subtotal == req[r].subtotal + line_total
           total_amount == subtotal + Tax(subtotal) - req[r].discount
           sale_items == Append(req[r].sale_items,
                           [product_id |-> item.product_id,
                            quantity_sold |-> item.quantity,
                            unit_price |-> price[item.product_id],
                            line_total |-> line_total])
       IN  Step(r,
             IF item.product_id \notin products THEN Finished(r, "NotFound")
             ELSE IF k = 0 THEN Finished(r, "NotFound")
             ELSE IF Insufficient(inventory[k].quantity, item.quantity)
               THEN Finished(r, "InsufficientStock")
             ELSE IF req[r].i < Len(req[r].items)
               THEN [req[r] EXCEPT !.sale_items = sale_items,
                                   !.subtotal = subtotal, !.i = @ + 1]
             ELSE IF DiscountTooLarge(req[r].discount, subtotal)
               THEN Finished(r, "ValidationError")
             ELSE IF PaymentShort(req[r].amount_paid, total_amount)
               THEN Finished(r, "ValidationError")
             ELSE [req[r] EXCEPT !.sale_items = sale_items,
                                 !.subtotal = subtotal,
                                 !.pc = "insert_sale"])
    /\ UNCHANGED <<db, applied, users>>

\* Step 7: new_sale.insert().
create_sale_insert(r) ==
    /\ req[r].op = "create_sale" /\ req[r].pc = "insert_sale"
    /\ LET subtotal == req[r].subtotal
           tax == Tax(subtotal)
           total_amount == subtotal + tax - req[r].discount
       IN  sales' = Append(sales,
               [branch_id |-> req[r].user.branch_id,
                sold_by |-> req[r].user,
                items |-> req[r].sale_items,
                subtotal |-> subtotal,
                tax |-> tax,
                discount |-> req[r].discount,
                total_amount |-> total_amount,
                amount_paid |-> req[r].amount_paid,
                change_given |-> req[r].amount_paid - total_amount,
                status |-> "Completed",
                cancelled_by |-> NoUser,
                cancelled_at |-> FALSE,
                cancellation_reason |-> <<>>])
    /\ Step(r, [req[r] EXCEPT !.id = Len(sales) + 1, !.i = 1,
                              !.pc = "find_inventory", !.writes = @ + 1])
    /\ UNCHANGED <<users, inventory, products, adjustment_logs, purchase_orders,
                   stock_transfers, applied>>

\* Step 8, one line item: Inventory.find_one and the local decrement.  The
\* handler does not test the result: no document raises AttributeError.
create_sale_find(r) ==
    /\ req[r].op = "create_sale" /\ req[r].pc = "find_inventory"
    /\ LET item == req[r].items[req[r].i]
           k == FindOne(item.product_id, req[r].user.branch_id)
       IN  Step(r,
             IF k = 0 THEN Finished(r, "Internal")
             ELSE [req[r] EXCEPT
                     !.inventory = [id |-> k,
                         quantity |-> inventory[k].quantity - item.quantity],
                     !.pc = "save_inventory"])
    /\ UNCHANGED <<db, applied, users>>

\* Step 8, one line item: inventory.save().  The answer of a completed sale
\* keeps the inventory the request arrived at.
create_sale_save(r) ==
    /\ req[r].op = "create_sale" /\ req[r].pc = "save_inventory"
    /\ LET item == req[r].items[req[r].i]
           doc == req[r].inventory
       IN  /\ inventory' = [inventory EXCEPT ![doc.id].quantity = doc.quantity]
           /\ applied' = Record("sale", req[r].id, item.product_id,
                                req[r].user.branch_id, 0 - item.quantity)
    /\ Step(r,
         IF req[r].i < Len(req[r].items)
           THEN [req[r] EXCEPT !.i = @ + 1, !.pc = "find_inventory",
                               !.inventory = NoInventory, !.writes = @ + 1]
         ELSE [Finished(r, "ok") EXCEPT !.writes = @ + 1,
                                        !.before = req[r].before])
    /\ UNCHANGED <<users, products, sales, adjustment_logs, purchase_orders,
                   stock_transfers>>

create_sale(r) ==
    \/ create_sale_check(r)
    \/ create_sale_insert(r)
    \/ create_sale_find(r)
    \/ create_sale_save(r)

(***************************************************************************)
(* PUT /sales/{sale_id}/cancel  (cancel_sale)                              *)
(***************************************************************************)
\* SaleCancelRequest: cancellation_reason of at least 5 characters.
SaleCancelRequest(cancellation_reason) == Len(cancellation_reason) >= 5

cancel_sale_start(r, user, sale_id, cancellation_reason) ==
    /\ Free(r)
    /\ LET n == [New("cancel_sale", user) EXCEPT
                    !.id = sale_id, !.text = cancellation_reason]
       IN  Arrive(r,
             IF ~SaleCancelRequest(cancellation_reason)
               THEN [n EXCEPT !.pc = "done", !.result = "ValidationError"]
             ELSE IF user.role \notin {STORE_MANAGER, ADMIN}
               THEN [n EXCEPT !.pc = "done", !.result = "Forbidden"]
             ELSE [n EXCEPT !.pc = "get_sale"])
    /\ UNCHANGED <<db, applied, users>>

\* A cancel_sale that skips the status check.
CancellableAlways(status) == TRUE

\* "if sale.status != SaleStatus.COMPLETED: raise".
Cancellable(status) == status = "Completed"

\* Sale.get, the status check, the manager's branch check.
cancel_sale_get(r) ==
    /\ req[r].op = "cancel_sale" /\ req[r].pc = "get_sale"
    /\ Step(r,
         IF req[r].id \notin DOMAIN sales THEN Finished(r, "NotFound")
         ELSE IF ~Cancellable(sales[req[r].id].status)
           THEN Finished(r, "InvalidTransition")
         ELSE IF /\ req[r].user.role = STORE_MANAGER
                 /\ sales[req[r].id].branch_id # req[r].user.branch_id
           THEN Finished(r, "Forbidden")
         ELSE [req[r] EXCEPT !.doc = sales[req[r].id], !.i = 1,
                             !.pc = "find_inventory"])
    /\ UNCHANGED <<db, applied, users>>

\* After line item i of the cancelled sale: the next item, or sale.save().
cancel_sale_next(r, nr) ==
    IF req[r].i < Len(req[r].doc.items)
      THEN [nr EXCEPT !.i = @ + 1, !.pc = "find_inventory",
                      !.inventory = NoInventory]
    ELSE [nr EXCEPT !.pc = "save_sale", !.inventory = NoInventory]

\* A restoration that credits nothing.
RestoredNothing(quantity, quantity_sold) == quantity

\* "inventory.quantity += item.quantity_sold".
Restored(quantity, quantity_sold) == quantity + quantity_sold

\* One line item: Inventory.find_one; an item with no document is skipped.
cancel_sale_find(r) ==
    /\ req[r].op = "cancel_sale" /\ req[r].pc = "find_inventory"
    /\ LET item == req[r].doc.items[req[r].i]
           k == FindOne(item.product_id, req[r].doc.branch_id)
       IN  Step(r,
             IF k = 0 THEN cancel_sale_next(r, req[r])
             ELSE [req[r] EXCEPT
                     !.inventory = [id |-> k,
                         quantity |-> Restored(inventory[k].quantity,
                                               item.quantity_sold)],
                     !.pc = "save_inventory"])
    /\ UNCHANGED <<db, applied, users>>

\* One line item: inventory.save().
cancel_sale_save(r) ==
    /\ req[r].op = "cancel_sale" /\ req[r].pc = "save_inventory"
    /\ LET item == req[r].doc.items[req[r].i]
           doc == req[r].inventory
       IN  /\ inventory' = [inventory EXCEPT ![doc.id].quantity = doc.quantity]
           /\ applied' = Record("cancel", req[r].id, item.product_id,
                                req[r].doc.branch_id, item.quantity_sold)
    /\ Step(r, cancel_sale_next(r, [req[r] EXCEPT !.writes = @ + 1]))
    /\ UNCHANGED <<users, products, sales, adjustment_logs, purchase_orders,
                   stock_transfers>>

\* sale.save(): the local copy, now Cancelled, replaces the stored sale.
cancel_sale_save_sale(r) ==
    /\ req[r].op = "cancel_sale" /\ req[r].pc = "save_sale"
    /\ sales' = [sales EXCEPT ![req[r].id] =
                   [req[r].doc EXCEPT
                      !.status = "Cancelled",
                      !.cancelled_by = req[r].user,
                      !.cancelled_at = TRUE,
                      !.cancellation_reason = req[r].text]]
    /\ Step(r, [Finished(r, "ok") EXCEPT !.writes = @ + 1])
    /\ UNCHANGED <<users, inventory, products, adjustment_logs, purchase_orders,
                   stock_transfers, applied>>

cancel_sale(r) ==
    \/ cancel_sale_get(r)
    \/ cancel_sale_find(r)
    \/ cancel_sale_save(r)
    \/ cancel_sale_save_sale(r)

(***************************************************************************)
(* Stock transfers.                                                        *)
(***************************************************************************)
\* "for q in quantities: for item in items: if item.product_id == q.product_id:
\*  item[field] = q.quantity", up to and including entry n of the list.
RECURSIVE SetQuantities(_, _, _, _)
SetQuantities(items, quantities, n, field) ==
    IF n = 0 THEN items
    ELSE LET before == SetQuantities(items, quantities, n - 1, field)
             q == quantities[n]
         IN  [k \in DOMAIN before |->
                IF before[k].product_id = q.product_id
                  THEN [before[k] EXCEPT ![field] = q.quantity]
                  ELSE before[k]]

\* The quantity fields of the schemas: Field(..., gt=0).
PositiveQuantities(quantities) ==
    \A k \in DOMAIN quantities : quantities[k].quantity > 0

\* StockTransferCreate: quantities > 0, reason of at least 10 characters.
StockTransferCreate(items, reason) ==
    PositiveQuantities(items) /\ Len(reason) >= 10

\* POST /stock-transfers/: schema, role, own branch, same-branch check.
create_transfer_request_start(r, user, from_branch_id, to_branch_id, items, reason) ==
    /\ Free(r)
    /\ LET n == [New("create_transfer_request", user) EXCEPT
                    !.items = items, !.text = reason,
                    !.doc = [from_branch_id |-> from_branch_id,
                             to_branch_id |-> to_branch_id,
                             items |-> <<>>,
                             status |-> "Pending",
                             requested_by |-> user,
                             approved_by |-> NoUser,
                             shipped_by |-> NoUser,
                             received_by |-> NoUser,
                             rejection_reason |-> <<>>]]
       IN  Arrive(r,
             IF ~StockTransferCreate(items, reason)
               THEN [n EXCEPT !.pc = "done", !.result = "ValidationError"]
             ELSE IF user.role # STORE_MANAGER
               THEN [n EXCEPT !.pc = "done", !.result = "Forbidden"]
             ELSE IF from_branch_id # user.branch_id
               THEN [n EXCEPT !.pc = "done", !.result = "Forbidden"]
             ELSE IF from_branch_id = to_branch_id
               THEN [n EXCEPT !.pc = "done", !.result = "BadRequest"]
             ELSE IF items = <<>>
               THEN [n EXCEPT !.pc = "insert_transfer"]
             ELSE [n EXCEPT !.pc = "check_stock", !.i = 1])
    /\ UNCHANGED <<db, applied, users>>

\* A stock check at the source that refuses nothing.
UnavailableNever(found, available, wanted) == FALSE

\* "if not inventory or inventory.quantity < item.quantity: raise".
Unavailable(found, available, wanted) == ~found \/ available < wanted

\* One requested item: Product.get, Inventory.find_one at the source, the
\* point-in-time stock check, the new item of the transfer.
create_transfer_request_check(r) ==
    /\ req[r].op = "create_transfer_request" /\ req[r].pc = "check_stock"
    /\ LET item == req[r].items[req[r].i]
           k == FindOne(item.product_id, req[r].doc.from_branch_id)
           items == Append(req[r].doc.items,
                       [product_id |-> item.product_id,
                        quantity_requested |-> item.quantity,
                        quantity_approved |-> 0,
                        quantity_sent |-> 0,
                        quantity_received |-> 0])
       IN  Step(r,
             IF item.product_id \notin products THEN Finished(r, "NotFound")
             ELSE IF Unavailable(k # 0,
                                 Quantity(item.product_id,
                                          req[r].doc.from_branch_id),
                                 item.quantity)
               THEN Finished(r, "InsufficientStock")
             ELSE [req[r] EXCEPT
                     !.doc.items = items,
                     !.i = @ + 1,
                     !.pc = IF req[r].i < Len(req[r].items)
                              THEN "check_stock" ELSE "insert_transfer"])
    /\ UNCHANGED <<db, applied, users>>

\* new_transfer.insert().
create_transfer_request_insert(r) ==
    /\ req[r].op = "create_transfer_request" /\ req[r].pc = "insert_transfer"
    /\ stock_transfers' = Append(stock_transfers, req[r].doc)
    /\ Step(r, [Finished(r, "ok") EXCEPT !.id = Len(stock_transfers) + 1,
                                         !.writes = @ + 1])
    /\ UNCHANGED <<users, inventory, products, sales, adjustment_logs,
                   purchase_orders, applied>>

create_transfer_request(r) ==
    \/ create_transfer_request_check(r)
    \/ create_transfer_request_insert(r)

\* A branch check that lets every branch through.
AtAnyBranch(user, branch_id) == TRUE

\* "str(transfer.<from|to>_branch_id) != str(current_user.branch_id)", negated.
AtBranch(user, branch_id) == user.branch_id = branch_id

\* PUT /stock-transfers/{id}/approve: schema and role.
approve_transfer_start(r, user, transfer_id, approved_quantities) ==
    /\ Free(r)
    /\ LET n == [New("approve_transfer", user) EXCEPT
                    !.id = transfer_id, !.items = approved_quantities]
       IN  Arrive(r,
             IF ~PositiveQuantities(approved_quantities)
               THEN [n EXCEPT !.pc = "done", !.result = "ValidationError"]
             ELSE IF user.role # STORE_MANAGER
               THEN [n EXCEPT !.pc = "done", !.result = "Forbidden"]
             ELSE [n EXCEPT !.pc = "get_transfer"])
    /\ UNCHANGED <<db, applied, users>>

\* StockTransfer.get, the branch and status checks, then the approved
\* quantities and the new status on the local copy.
approve_transfer_get(r) ==
    /\ req[r].op = "approve_transfer" /\ req[r].pc = "get_transfer"
    /\ LET id == req[r].id
           transfer == stock_transfers[id]
           items ==
             IF req[r].items # <<>>
               THEN SetQuantities(transfer.items, req[r].items,
                                  Len(req[r].items), "quantity_approved")
               ELSE [k \in DOMAIN transfer.items |->
                       [transfer.items[k] EXCEPT !.quantity_approved =
                           transfer.items[k].quantity_requested]]
       IN  Step(r,
             IF id \notin DOMAIN stock_transfers THEN Finished(r, "NotFound")
             ELSE IF ~AtBranch(req[r].user, transfer.from_branch_id)
               THEN Finished(r, "Forbidden")
             ELSE IF transfer.status # "Pending"
               THEN Finished(r, "InvalidTransition")
             ELSE [req[r] EXCEPT
                     !.doc = [transfer EXCEPT !.items = items,
                                              !.status = "Approved",
                                              !.approved_by = req[r].user],
                     !.pc = "save_transfer"])
    /\ UNCHANGED <<db, applied, users>>

\* A save of the transfer that, on approval, also reserves the approved
\* quantity of the first item at the source.
transfer_save_reserving(r, op) ==
    /\ req[r].op = op /\ req[r].pc = "save_transfer"
    /\ stock_transfers' = [stock_transfers EXCEPT ![req[r].id] = req[r].doc]
    /\ LET items == req[r].doc.items
           k == IF items = <<>> THEN 0
                ELSE FindOne(items[1].product_id, req[r].doc.from_branch_id)
       IN  inventory' =
             IF op = "approve_transfer" /\ k # 0
               THEN [inventory EXCEPT
                       ![k].quantity = @ - items[1].quantity_approved]
               ELSE inventory
    /\ Step(r, [Finished(r, "ok") EXCEPT !.writes = @ + 1])
    /\ UNCHANGED <<users, products, sales, adjustment_logs,
                   purchase_orders, applied>>

\* transfer.save(): the local copy replaces the stored transfer.
transfer_save(r, op) ==
    /\ req[r].op = op /\ req[r].pc = "save_transfer"
    /\ stock_transfers' = [stock_transfers EXCEPT ![req[r].id] = req[r].doc]
    /\ Step(r, [Finished(r, "ok") EXCEPT !.writes = @ + 1])
    /\ UNCHANGED <<users, inventory, products, sales, adjustment_logs,
                   purchase_orders, applied>>

approve_transfer_save(r) == transfer_save(r, "approve_transfer")

approve_transfer(r) ==
    \/ approve_transfer_get(r)
    \/ approve_transfer_save(r)

\* PUT /stock-transfers/{id}/ship: schema and role.
ship_transfer_start(r, user, transfer_id, actual_quantities) ==
    /\ Free(r)
    /\ LET n == [New("ship_transfer", user) EXCEPT
                    !.id = transfer_id, !.items = actual_quantities]
       IN  Arrive(r,
             IF ~PositiveQuantities(actual_quantities)
               THEN [n EXCEPT !.pc = "done", !.result = "ValidationError"]
             ELSE IF user.role \notin {STORE_STAFF, STORE_MANAGER}
               THEN [n EXCEPT !.pc = "done", !.result = "Forbidden"]
             ELSE [n EXCEPT !.pc = "get_transfer"])
    /\ UNCHANGED <<db, applied, users>>

\* StockTransfer.get, the branch and status checks.
ship_transfer_get(r) ==
    /\ req[r].op = "ship_transfer" /\ req[r].pc = "get_transfer"
    /\ LET id == req[r].id
           transfer == stock_transfers[id]
       IN  Step(r,
             IF id \notin DOMAIN stock_transfers THEN Finished(r, "NotFound")
             ELSE IF ~AtBranch(req[r].user, transfer.from_branch_id)
               THEN Finished(r, "Forbidden")
             ELSE IF transfer.status # "Approved"
               THEN Finished(r, "InvalidTransition")
             ELSE IF req[r].items = <<>>
               THEN [req[r] EXCEPT
                       !.doc = [transfer EXCEPT !.status = "In Transit",
                                                !.shipped_by = req[r].user],
                       !.pc = "save_transfer"]
             ELSE [req[r] EXCEPT !.doc = transfer, !.i = 1,
                                 !.pc = "find_inventory"])
    /\ UNCHANGED <<db, applied, users>>

\* After entry i of the shipped quantities: the next entry, or the new
\* status on the local copy and transfer.save().
ship_transfer_next(r, nr) ==
    IF req[r].i < Len(req[r].items)
      THEN [nr EXCEPT !.i = @ + 1, !.pc = "find_inventory",
                      !.inventory = NoInventory]
    ELSE [nr EXCEPT !.doc.status = "In Transit",
                    !.doc.shipped_by = req[r].user,
                    !.pc = "save_transfer", !.inventory = NoInventory]

\* A shipment that deducts nothing.
DeductedNothing(quantity, quantity_sent) == quantity

\* "inventory.quantity -= quantity_sent".
Deducted(quantity, quantity_sent) == quantity - quantity_sent

\* One shipped quantity: quantity_sent on the local copy, Inventory.find_one
\* at the source, the stock check and the local decrement.  With no
\* inventory document nothing is deducted.
ship_transfer_find(r) ==
    /\ req[r].op = "ship_transfer" /\ req[r].pc = "find_inventory"
    /\ LET ship_item == req[r].items[req[r].i]
           k == FindOne(ship_item.product_id, req[r].doc.from_branch_id)
           items == SetQuantities(req[r].doc.items, <<ship_item>>, 1,
                                  "quantity_sent")
           nr == [req[r] EXCEPT !.doc.items = items]
       IN  Step(r,
             IF k = 0 THEN ship_transfer_next(r, nr)
             ELSE IF inventory[k].quantity < ship_item.quantity
               THEN Finished(r, "InsufficientStock")
             ELSE [nr EXCEPT
                     !.inventory = [id |-> k,
                         quantity |-> Deducted(inventory[k].quantity,
                                               ship_item.quantity)],
                     !.pc = "save_inventory"])
    /\ UNCHANGED <<db, applied, users>>

\* One shipped quantity: inventory.save().
ship_transfer_save_inventory(r) ==
    /\ req[r].op = "ship_transfer" /\ req[r].pc = "save_inventory"
    /\ LET ship_item == req[r].items[req[r].i]
           doc == req[r].inventory
       IN  /\ inventory' = [inventory EXCEPT ![doc.id].quantity = doc.quantity]
           /\ applied' = RecordShip(req[r].id, ship_item.product_id,
                                    req[r].doc.from_branch_id,
                                    0 - ship_item.quantity)
    /\ Step(r, ship_transfer_next(r, [req[r] EXCEPT !.writes = @ + 1]))
    /\ UNCHANGED <<users, products, sales, adjustment_logs, purchase_orders,
                   stock_transfers>>

ship_transfer_save(r) == transfer_save(r, "ship_transfer")

ship_transfer(r) ==
    \/ ship_transfer_get(r)
    \/ ship_transfer_find(r)
    \/ ship_transfer_save_inventory(r)
    \/ ship_transfer_save(r)

\* PUT /stock-transfers/{id}/receive: schema and role.
receive_transfer_start(r, user, transfer_id, received_quantities) ==
    /\ Free(r)
    /\ LET n == [New("receive_transfer", user) EXCEPT
                    !.id = transfer_id, !.items = received_quantities]
       IN  Arrive(r,
             IF ~PositiveQuantities(received_quantities)
               THEN [n EXCEPT !.pc = "done", !.result = "ValidationError"]
             ELSE IF user.role \notin {STORE_STAFF, STORE_MANAGER}
               THEN [n EXCEPT !.pc = "done", !.result = "Forbidden"]
             ELSE [n EXCEPT !.pc = "get_transfer"])
    /\ UNCHANGED <<db, applied, users>>

\* StockTransfer.get, the branch and status checks.
receive_transfer_get(r) ==
    /\ req[r].op = "receive_transfer" /\ req[r].pc = "get_transfer"
    /\ LET id == req[r].id
           transfer == stock_transfers[id]
       IN  Step(r,
             IF id \notin DOMAIN stock_transfers THEN Finished(r, "NotFound")
             ELSE IF ~AtBranch(req[r].user, transfer.to_branch_id)
               THEN Finished(r, "Forbidden")
             ELSE IF transfer.status # "In Transit"
               THEN Finished(r, "InvalidTransition")
             ELSE IF req[r].items = <<>>
               THEN [req[r] EXCEPT
                       !.doc = [transfer EXCEPT !.status = "Completed",
                                                !.received_by = req[r].user],
                       !.pc = "save_transfer"]
             ELSE [req[r] EXCEPT !.doc = transfer, !.i = 1,
                                 !.pc = "find_inventory"])
    /\ UNCHANGED <<db, applied, users>>

receive_transfer_next(r, nr) ==
    IF req[r].i < Len(req[r].items)
      THEN [nr EXCEPT !.i = @ + 1, !.pc = "find_inventory",
                      !.inventory = NoInventory]
    ELSE [nr EXCEPT !.doc.status = "Completed",
                    !.doc.received_by = req[r].user,
                    !.pc = "save_transfer", !.inventory = NoInventory]

\* One received quantity: quantity_received on the local copy and
\* Inventory.find_one at the destination; the document found is incremented
\* locally, none found leads to the insert of a new one.
receive_transfer_find(r) ==
    /\ req[r].op = "receive_transfer" /\ req[r].pc = "find_inventory"
    /\ LET receive_item == req[r].items[req[r].i]
           k == FindOne(receive_item.product_id, req[r].doc.to_branch_id)
           items == SetQuantities(req[r].doc.items, <<receive_item>>, 1,
                                  "quantity_received")
           nr == [req[r] EXCEPT !.doc.items = items]
       IN  Step(r,
             IF k = 0 THEN [nr EXCEPT !.pc = "insert_inventory"]
             ELSE [nr EXCEPT
                     !.inventory = [id |-> k,
                         quantity |-> inventory[k].quantity
                                        + receive_item.quantity],
                     !.pc = "save_inventory"])
    /\ UNCHANGED <<db, applied, users>>

\* One received quantity: inventory.save().
receive_transfer_save_inventory(r) ==
    /\ req[r].op = "receive_transfer" /\ req[r].pc = "save_inventory"
    /\ LET receive_item == req[r].items[req[r].i]
           doc == req[r].inventory
       IN  /\ inventory' = [inventory EXCEPT ![doc.id].quantity = doc.quantity]
           /\ applied' = Record("receive", req[r].id, receive_item.product_id,
                                req[r].doc.to_branch_id,
                                receive_item.quantity)
    /\ Step(r, receive_transfer_next(r, [req[r] EXCEPT !.writes = @ + 1]))
    /\ UNCHANGED <<users, products, sales, adjustment_logs, purchase_orders,
                   stock_transfers>>

\* One received quantity: new_inventory.insert().
receive_transfer_insert_inventory(r) ==
    /\ req[r].op = "receive_transfer" /\ req[r].pc = "insert_inventory"
    /\ LET receive_item == req[r].items[req[r].i]
       IN  /\ inventory' = Append(inventory,
                 [product_id |-> receive_item.product_id,
                  branch_id |-> req[r].doc.to_branch_id,
                  quantity |-> receive_item.quantity])
           /\ applied' = Record("receive", req[r].id, receive_item.product_id,
                                req[r].doc.to_branch_id,
                                receive_item.quantity)
    /\ Step(r, receive_transfer_next(r, [req[r] EXCEPT !.writes = @ + 1]))
    /\ UNCHANGED <<users, products, sales, adjustment_logs, purchase_orders,
                   stock_transfers>>

receive_transfer_save(r) == transfer_save(r, "receive_transfer")

receive_transfer(r) ==
    \/ receive_transfer_get(r)
    \/ receive_transfer_find(r)
    \/ receive_transfer_save_inventory(r)
    \/ receive_transfer_insert_inventory(r)
    \/ receive_transfer_save(r)

\* StockTransferReject: rejection_reason of at least 10 characters.
StockTransferReject(rejection_reason) == Len(rejection_reason) >= 10

\* PUT /stock-transfers/{id}/reject: schema and role.
reject_transfer_start(r, user, transfer_id, rejection_reason) ==
    /\ Free(r)
    /\ LET n == [New("reject_transfer", user) EXCEPT
                    !.id = transfer_id, !.text = rejection_reason]
       IN  Arrive(r,
             IF ~StockTransferReject(rejection_reason)
               THEN [n EXCEPT !.pc = "done", !.result = "ValidationError"]
             ELSE IF user.role # STORE_MANAGER
               THEN [n EXCEPT !.pc = "done", !.result = "Forbidden"]
             ELSE [n EXCEPT !.pc = "get_transfer"])
    /\ UNCHANGED <<db, applied, users>>

\* StockTransfer.get, the branch and status checks, the new status on the
\* local copy.
reject_transfer_get(r) ==
    /\ req[r].op = "reject_transfer" /\ req[r].pc = "get_transfer"
    /\ LET id == req[r].id
           transfer == stock_transfers[id]
       IN  Step(r,
             IF id \notin DOMAIN stock_transfers THEN Finished(r, "NotFound")
             ELSE IF req[r].user.branch_id \notin
                       {transfer.from_branch_id, transfer.to_branch_id}
               THEN Finished(r, "Forbidden")
             ELSE IF transfer.status # "Pending"
               THEN Finished(r, "InvalidTransition")
             ELSE [req[r] EXCEPT
                     !.doc = [transfer EXCEPT
                                !.status = "Rejected",
                                !.rejection_reason = req[r].text],
                     !.pc = "save_transfer"])
    /\ UNCHANGED <<db, applied, users>>

reject_transfer_save(r) == transfer_save(r, "reject_transfer")

reject_transfer(r) ==
    \/ reject_transfer_get(r)
    \/ reject_transfer_save(r)

(***************************************************************************)
(* Procurement.                                                            *)
(***************************************************************************)
\* The suppliers of the catalogue: supplier 1 is active, supplier 2 is not,
\* any other id names no supplier.
Suppliers == {1, 2}
is_active(supplier_id) == supplier_id = 1

\* POCreateSchema: every quantity > 0.
POCreateSchema(items) == PositiveQuantities(items)

RECURSIVE TotalAmount(_)
TotalAmount(items) ==
    IF items = <<>> THEN 0
    ELSE Head(items).quantity * Head(items).unit_cost + TotalAmount(Tail(items))

\* An approval workflow that auto-approves an order of exactly 5000.
InitialPOStatusInclusive(total_amount) ==
    IF total_amount <= 5000 THEN "Sent" ELSE "Pending Approval"

\* Step 5 of create_po: the approval workflow.
InitialPOStatus(total_amount) ==
    IF total_amount < 5000 THEN "Sent" ELSE "Pending Approval"

\* POST /procurement/create: schema, role, Supplier.get, Branch.get.
create_po_start(r, user, supplier_id, target_branch, items) ==
    /\ Free(r)
    /\ LET n == [New("create_po", user) EXCEPT
                    !.items = items,
                    !.doc = [supplier_id |-> supplier_id,
                             target_branch |-> target_branch,
                             items |-> <<>>,
                             total_amount |-> 0,
                             status |-> "none",
                             created_by |-> user,
                             approved_by |-> NoUser,
                             received_at |-> FALSE]]
       IN  Arrive(r,
             IF ~POCreateSchema(items)
               THEN [n EXCEPT !.pc = "done", !.result = "ValidationError"]
             ELSE IF user.role # PURCHASE
               THEN [n EXCEPT !.pc = "done", !.result = "Forbidden"]
             ELSE IF supplier_id \notin Suppliers
               THEN [n EXCEPT !.pc = "done", !.result = "NotFound"]
             ELSE IF ~is_active(supplier_id)
               THEN [n EXCEPT !.pc = "done", !.result = "BadRequest"]
             ELSE IF target_branch \notin Branches
               THEN [n EXCEPT !.pc = "done", !.result = "NotFound"]
             ELSE [n EXCEPT !.pc = "check_products"])
    /\ UNCHANGED <<db, applied, users>>

\* Step 4: Product.get for every item, the line costs and the total; step 5:
\* the status the order starts in.
create_po_check(r) ==
    /\ req[r].op = "create_po" /\ req[r].pc = "check_products"
    /\ LET items == req[r].items
           total_amount == TotalAmount(items)
           po_items == [k \in DOMAIN items |->
                          [product_id |-> items[k].product_id,
                           ordered_quantity |-> items[k].quantity,
                           received_quantity |-> 0,
                           unit_cost |-> items[k].unit_cost,
                           total_cost |-> items[k].quantity
                                            * items[k].unit_cost]]
       IN  Step(r,
             IF \E k \in DOMAIN items : items[k].product_id \notin products
               THEN Finished(r, "NotFound")
             ELSE [req[r] EXCEPT
                     !.doc.items = po_items,
                     !.doc.total_amount = total_amount,
                     !.doc.status = InitialPOStatus(total_amount),
                     !.pc = "insert_po"])
    /\ UNCHANGED <<db, applied, users>>

\* Step 6: po.insert().
create_po_insert(r) ==
    /\ req[r].op = "create_po" /\ req[r].pc = "insert_po"
    /\ purchase_orders' = Append(purchase_orders, req[r].doc)
    /\ Step(r, [Finished(r, "ok") EXCEPT !.id = Len(purchase_orders) + 1,
                                         !.writes = @ + 1])
    /\ UNCHANGED <<users, inventory, products, sales, adjustment_logs,
                   stock_transfers, applied>>

create_po(r) ==
    \/ create_po_check(r)
    \/ create_po_insert(r)

\* A decision on an order that any role may take.
decide_po_start_open(r, op, user, po_id) ==
    /\ Free(r)
    /\ Arrive(r, [New(op, user) EXCEPT !.id = po_id, !.pc = "get_po"])
    /\ UNCHANGED <<db, applied, users>>

\* PUT /procurement/{po_id}/approve and /reject: the role check.
decide_po_start(r, op, user, po_id) ==
    /\ Free(r)
    /\ LET n == [New(op, user) EXCEPT !.id = po_id]
       IN  Arrive(r,
             IF user.role \notin {FINANCE, ADMIN}
               THEN [n EXCEPT !.pc = "done", !.result = "Forbidden"]
             ELSE [n EXCEPT !.pc = "get_po"])
    /\ UNCHANGED <<db, applied, users>>

approve_po_start(r, user, po_id) == decide_po_start(r, "approve_po", user, po_id)

reject_po_start(r, user, po_id) == decide_po_start(r, "reject_po", user, po_id)

\* PurchaseOrder.get, the status check, the decision on the local copy.
approve_po_get(r) ==
    /\ req[r].op = "approve_po" /\ req[r].pc = "get_po"
    /\ LET id == req[r].id
           po == purchase_orders[id]
       IN  Step(r,
             IF id \notin DOMAIN purchase_orders THEN Finished(r, "NotFound")
             ELSE IF po.status # "Pending Approval"
               THEN Finished(r, "InvalidTransition")
             ELSE [req[r] EXCEPT
                     !.doc = [po EXCEPT !.status = "Approved",
                                        !.approved_by = req[r].user],
                     !.pc = "save_po"])
    /\ UNCHANGED <<db, applied, users>>

reject_po_get(r) ==
    /\ req[r].op = "reject_po" /\ req[r].pc = "get_po"
    /\ LET id == req[r].id
           po == purchase_orders[id]
       IN  Step(r,
             IF id \notin DOMAIN purchase_orders THEN Finished(r, "NotFound")
             ELSE IF po.status # "Pending Approval"
               THEN Finished(r, "InvalidTransition")
             ELSE [req[r] EXCEPT
                     !.doc = [po EXCEPT !.status = "Rejected"],
                     !.pc = "save_po"])
    /\ UNCHANGED <<db, applied, users>>

\* po.save(): the local copy replaces the stored order.
po_save(r, op) ==
    /\ req[r].op = op /\ req[r].pc = "save_po"
    /\ purchase_orders' = [purchase_orders EXCEPT ![req[r].id] = req[r].doc]
    /\ Step(r, [Finished(r, "ok") EXCEPT !.writes = @ + 1])
    /\ UNCHANGED <<users, inventory, products, sales, adjustment_logs,
                   stock_transfers, applied>>

approve_po_save(r) == po_save(r, "approve_po")

reject_po_save(r) == po_save(r, "reject_po")

approve_po(r) ==
    \/ approve_po_get(r)
    \/ approve_po_save(r)

reject_po(r) ==
    \/ reject_po_get(r)
    \/ reject_po_save(r)

\* ReceiveGoodsSchema: every received_qty >= 0.
ReceiveGoodsSchema(items) ==
    \A k \in DOMAIN items : items[k].received_qty >= 0

\* POST /procurement/{po_id}/receive: schema and role.
receive_goods_start(r, user, po_id, items) ==
    /\ Free(r)
    /\ LET n == [New("receive_goods", user) EXCEPT
                    !.id = po_id, !.items = items]
       IN  Arrive(r,
             IF ~ReceiveGoodsSchema(items)
               THEN [n EXCEPT !.pc = "done", !.result = "ValidationError"]
             ELSE IF user.role \notin {STORE_STAFF, STORE_MANAGER}
               THEN [n EXCEPT !.pc = "done", !.result = "Forbidden"]
             ELSE [n EXCEPT !.pc = "get_po"])
    /\ UNCHANGED <<db, applied, users>>

\* PurchaseOrder.get and the status check.
receive_goods_get(r) ==
    /\ req[r].op = "receive_goods" /\ req[r].pc = "get_po"
    /\ LET id == req[r].id
           po == purchase_orders[id]
       IN  Step(r,
             IF id \notin DOMAIN purchase_orders THEN Finished(r, "NotFound")
             ELSE IF po.status \notin {"Sent", "Approved"}
               THEN Finished(r, "InvalidTransition")
             ELSE IF req[r].items = <<>>
               THEN [req[r] EXCEPT
                       !.doc = [po EXCEPT !.status = "Received",
                                          !.received_at = TRUE],
                       !.pc = "save_po"]
             ELSE [req[r] EXCEPT !.doc = po, !.i = 1,
                                 !.pc = "find_inventory"])
    /\ UNCHANGED <<db, applied, users>>

\* A receipt that leaves the status of the order as it was.
receive_goods_next_open(r, nr) ==
    IF req[r].i < Len(req[r].items)
      THEN [nr EXCEPT !.i = @ + 1, !.pc = "find_inventory",
                      !.inventory = NoInventory]
    ELSE [nr EXCEPT !.pc = "save_po", !.inventory = NoInventory]

\* After received line i: the next line, or step 5 on the local copy and
\* po.save().
receive_goods_next(r, nr) ==
    IF req[r].i < Len(req[r].items)
      THEN [nr EXCEPT !.i = @ + 1, !.pc = "find_inventory",
                      !.inventory = NoInventory]
    ELSE [nr EXCEPT !.doc.status = "Received", !.doc.received_at = TRUE,
                    !.pc = "save_po", !.inventory = NoInventory]

\* next(item for item in po.items if item.product_id == product_id, None):
\* the index of the first item of the order for the product, 0 for None.
PoItem(po_items, product_id) ==
    LET S == {k \in DOMAIN po_items : po_items[k].product_id = product_id}
    IN  IF S = {} THEN 0 ELSE Min(S)

\* One received line: the item of the order, its received_quantity on the
\* local copy, Product.get, Inventory.find_one at the target branch.
receive_goods_find(r) ==
    /\ req[r].op = "receive_goods" /\ req[r].pc = "find_inventory"
    /\ LET received_item == req[r].items[req[r].i]
           n == PoItem(req[r].doc.items, received_item.product_id)
           k == FindOne(received_item.product_id, req[r].doc.target_branch)
           nr == [req[r] EXCEPT !.doc.items[n].received_quantity =
                                    @ + received_item.received_qty]
       IN  Step(r,
             IF n = 0 THEN Finished(r, "ValidationError")
             ELSE IF received_item.product_id \notin products
               THEN Finished(r, "NotFound")
             ELSE IF k = 0 THEN [nr EXCEPT !.pc = "insert_inventory"]
             ELSE [nr EXCEPT
                     !.inventory = [id |-> k,
                         quantity |-> inventory[k].quantity
                                        + received_item.received_qty],
                     !.pc = "save_inventory"])
    /\ UNCHANGED <<db, applied, users>>

\* One received line: inventory.save().
receive_goods_save_inventory(r) ==
    /\ req[r].op = "receive_goods" /\ req[r].pc = "save_inventory"
    /\ LET received_item == req[r].items[req[r].i]
           doc == req[r].inventory
       IN  /\ inventory' = [inventory EXCEPT ![doc.id].quantity = doc.quantity]
           /\ applied' = Record("po", req[r].id, received_item.product_id,
                                req[r].doc.target_branch,
                                received_item.received_qty)
    /\ Step(r, receive_goods_next(r, [req[r] EXCEPT !.writes = @ + 1]))
    /\ UNCHANGED <<users, products, sales, adjustment_logs, purchase_orders,
                   stock_transfers>>

\* One received line: new_inv.insert().
receive_goods_insert_inventory(r) ==
    /\ req[r].op = "receive_goods" /\ req[r].pc = "insert_inventory"
    /\ LET received_item == req[r].items[req[r].i]
       IN  /\ inventory' = Append(inventory,
                 [product_id |-> received_item.product_id,
                  branch_id |-> req[r].doc.target_branch,
                  quantity |-> received_item.received_qty])
           /\ applied' = Record("po", req[r].id, received_item.product_id,
                                req[r].doc.target_branch,
                                received_item.received_qty)
    /\ Step(r, receive_goods_next(r, [req[r] EXCEPT !.writes = @ + 1]))
    /\ UNCHANGED <<users, products, sales, adjustment_logs, purchase_orders,
                   stock_transfers>>

receive_goods_save(r) == po_save(r, "receive_goods")

receive_goods(r) ==
    \/ receive_goods_get(r)
    \/ receive_goods_find(r)
    \/ receive_goods_save_inventory(r)
    \/ receive_goods_insert_inventory(r)
    \/ receive_goods_save(r)

\* A deletion that also removes the product's inventory documents.
delete_product_cascade(user, product_id) ==
    /\ user.role \in {ADMIN, PURCHASE}
    /\ product_id \in products
    /\ nreq < MaxRequests
    /\ products' = products \ {product_id}
    /\ inventory' = SelectSeq(inventory,
                              LAMBDA d : d.product_id # product_id)
    /\ nreq' = nreq + 1
    /\ UNCHANGED <<users, sales, adjustment_logs, purchase_orders,
                   stock_transfers, req, last, failed, applied>>

\* DELETE /products/{product_id}, by an administrator or purchase manager:
\* Product.get, product.delete().
delete_product(user, product_id) ==
    /\ user.role \in {ADMIN, PURCHASE}
    /\ product_id \in products
    /\ nreq < MaxRequests
    /\ products' = products \ {product_id}
    /\ nreq' = nreq + 1
    /\ UNCHANGED <<users, inventory, sales, adjustment_logs, purchase_orders,
                   stock_transfers, req, last, failed, applied>>

(***************************************************************************)
(* Users: POST /users/admin/create-user, POST /users/setup-password,       *)
(* PATCH /users/{user_id}/status.                                          *)
(***************************************************************************)
\* create_invite_token: the signed claims of the link mailed to the invitee.
create_invite_token(email) == [sub |-> email, type |-> "invite"]

\* The document create_user builds: no password, inactive.
User(user_id, email, role, branch_id) ==
    [user_id |-> user_id, email |-> email, role |-> role,
     branch_id |-> branch_id, hashed_password |-> <<>>, is_active |-> FALSE]

\* User.find(User.email == email), User.find(User.user_id == user_id).
ByEmail(email) == {u \in users : u.email = email}
ByUserId(user_id) == {u \in users : u.user_id = user_id}

\* user.save(): the local copy replaces the stored document.
SaveUser(user) == (users \ ByUserId(user.user_id)) \cup {user}

\* Arrival: get_admin_user, User.find_one by email, the new document.
create_user_start(r, admin, email, invited) ==
    /\ Free(r)
    /\ LET n == [New("create_user", admin) EXCEPT
                    !.email = email,
                    !.doc = User(nreq + 1, email, invited.role,
                                 invited.branch_id)]
       IN  Arrive(r,
             IF admin.role # ADMIN
               THEN [n EXCEPT !.pc = "done", !.result = "Forbidden"]
             ELSE IF ByEmail(email) # {}
               THEN [n EXCEPT !.pc = "done", !.result = "BadRequest"]
             ELSE [n EXCEPT !.pc = "insert"])
    /\ UNCHANGED <<db, applied, users>>

\* new_user.insert(); the unique index on email refuses a second document.
create_user_insert(r) ==
    /\ req[r].op = "create_user" /\ req[r].pc = "insert"
    /\ IF ByEmail(req[r].email) # {}
         THEN /\ Step(r, Finished(r, "Internal"))
              /\ users' = users
         ELSE /\ Step(r, [req[r] EXCEPT !.pc = "send", !.writes = @ + 1])
              /\ users' = users \cup {req[r].doc}
    /\ UNCHANGED <<db, applied>>

\* send_invite_email: delivered, or an exception that is caught.
create_user_send(r, delivered) ==
    /\ req[r].op = "create_user" /\ req[r].pc = "send"
    /\ Step(r, IF delivered
                 THEN [Finished(r, "ok") EXCEPT
                         !.token = create_invite_token(req[r].email)]
                 ELSE [req[r] EXCEPT !.pc = "delete"])
    /\ UNCHANGED <<db, applied, users>>

\* new_user.delete().
new_user_delete(new_user) == users \ ByUserId(new_user.user_id)

\* The except branch: new_user.delete(), then HTTP 500.
create_user_delete(r) ==
    /\ req[r].op = "create_user" /\ req[r].pc = "delete"
    /\ users' = new_user_delete(req[r].doc)
    /\ Step(r, [Finished(r, "Internal") EXCEPT !.writes = @ + 1])
    /\ UNCHANGED <<db, applied>>

create_user(r) ==
    \/ create_user_insert(r)
    \/ \E delivered \in BOOLEAN : create_user_send(r, delivered)
    \/ create_user_delete(r)

\* Arrival: jwt.decode and the token type.
setup_password_start(r, token, new_password) ==
    /\ Free(r)
    /\ LET n == [New("setup_password", NoUser) EXCEPT
                    !.token = token, !.email = token.sub,
                    !.new_password = new_password]
       IN  Arrive(r,
             IF token.type # "invite"
               THEN [n EXCEPT !.pc = "done", !.result = "BadRequest"]
             ELSE [n EXCEPT !.pc = "find_user"])
    /\ UNCHANGED <<db, applied, users>>

\* User.find_one by email; the account is activated on the local copy.
setup_password_find(r) ==
    /\ req[r].op = "setup_password" /\ req[r].pc = "find_user"
    /\ Step(r,
         IF ByEmail(req[r].email) = {} THEN Finished(r, "NotFound")
         ELSE LET user == CHOOSE u \in ByEmail(req[r].email) : TRUE
              IN  IF user.is_active THEN Finished(r, "BadRequest")
                  ELSE [req[r] EXCEPT
                          !.doc = [user EXCEPT
                             !.hashed_password =
                                 get_password_hash(req[r].new_password),
                             !.is_active = TRUE],
                          !.pc = "save_user"])
    /\ UNCHANGED <<db, applied, users>>

\* user.save().
setup_password_save(r) ==
    /\ req[r].op = "setup_password" /\ req[r].pc = "save_user"
    /\ users' = SaveUser(req[r].doc)
    /\ Step(r, [Finished(r, "ok") EXCEPT !.writes = @ + 1])
    /\ UNCHANGED <<db, applied>>

setup_password(r) ==
    \/ setup_password_find(r)
    \/ setup_password_save(r)

\* Arrival: get_admin_user.
change_user_status_start(r, admin, user_id, active) ==
    /\ Free(r)
    /\ LET n == [New("change_user_status", admin) EXCEPT
                    !.id = user_id, !.active = active]
       IN  Arrive(r,
             IF admin.role # ADMIN
               THEN [n EXCEPT !.pc = "done", !.result = "Forbidden"]
             ELSE [n EXCEPT !.pc = "find_user"])
    /\ UNCHANGED <<db, applied, users>>

\* User.find_one by user_id; an administrator may not change their own status.
change_user_status_find(r) ==
    /\ req[r].op = "change_user_status" /\ req[r].pc = "find_user"
    /\ Step(r,
         IF ByUserId(req[r].id) = {} THEN Finished(r, "NotFound")
         ELSE LET user == CHOOSE u \in ByUserId(req[r].id) : TRUE
              IN  IF user.user_id = AdminAccount.user_id
                    THEN Finished(r, "BadRequest")
                  ELSE [req[r] EXCEPT
                          !.doc = [user EXCEPT !.is_active = req[r].active],
                          !.email = user.email,
                          !.pc = "save_user"])
    /\ UNCHANGED <<db, applied, users>>

\* user.save().
change_user_status_save(r) ==
    /\ req[r].op = "change_user_status" /\ req[r].pc = "save_user"
    /\ users' = SaveUser(req[r].doc)
    /\ Step(r, [Finished(r, "ok") EXCEPT !.writes = @ + 1])
    /\ UNCHANGED <<db, applied>>

change_user_status(r) ==
    \/ change_user_status_find(r)
    \/ change_user_status_save(r)

(***************************************************************************)
(* Requests and specifications.                                            *)
(***************************************************************************)
Cashier == [role |-> SALES_STAFF, branch_id |-> 1]
Manager == [role |-> STORE_MANAGER, branch_id |-> 1]
Staff == [role |-> STORE_STAFF, branch_id |-> 1]
DestStaff == [role |-> STORE_STAFF, branch_id |-> 2]

Quantities == 1 .. MaxQty
Line(p, q) == [product_id |-> p, quantity |-> q]

Paid == 1000
ReasonText == <<"l", "o", "w", " ", "s", "t", "o", "c", "k", "s">>

\* The ledger under concurrent deductions of product 1 at branch 1: sales,
\* adjustments and the shipment of a transfer to branch 2.
NextLedger ==
    \E r \in Req :
        \/ \E q \in Quantities :
              create_sale_start(r, Cashier, <<Line(1, q)>>, 0, Paid)
        \/ create_sale(r)
        \/ \E q \in Quantities : adjust_stock_start(r, Manager, 1, q, "damaged")
        \/ adjust_stock(r)
        \/ \E q \in Quantities :
              create_transfer_request_start(r, Manager, 1, 2, <<Line(1, q)>>,
                                            ReasonText)
        \/ create_transfer_request(r)
        \/ approve_transfer_start(r, Manager, 1, <<>>)
        \/ approve_transfer(r)
        \/ \E q \in Quantities : ship_transfer_start(r, Staff, 1, <<Line(1, q)>>)
        \/ ship_transfer(r)

SpecLedger == Init /\ [][NextLedger]_vars

CancelText == <<"w", "r", "o", "n", "g">>

\* Sales of branch 1 and their cancellation by the branch's manager.
NextSales ==
    \E r \in Req :
        \/ \E items \in {<<Line(1, q)>> : q \in Quantities}
                          \cup {<<Line(1, 1), Line(2, 1)>>} :
              create_sale_start(r, Cashier, items, 0, Paid)
        \/ create_sale(r)
        \/ \E id \in 1 .. 2 : cancel_sale_start(r, Manager, id, CancelText)
        \/ cancel_sale(r)

SpecSales == Init /\ [][NextSales]_vars

\* The transfer workflow from branch 1 to branch 2: request, approval,
\* rejection, shipment and receipt of transfer 1.
NextTransfer ==
    \E r \in Req :
        \/ \E items \in {<<Line(1, q)>> : q \in Quantities}
                          \cup {<<Line(1, 1), Line(2, 1)>>} :
              create_transfer_request_start(r, Manager, 1, 2, items, ReasonText)
        \/ create_transfer_request(r)
        \/ \E qs \in {<<>>} \cup {<<Line(1, q)>> : q \in Quantities} :
              approve_transfer_start(r, Manager, 1, qs)
        \/ approve_transfer(r)
        \/ reject_transfer_start(r, Manager, 1, ReasonText)
        \/ reject_transfer(r)
        \/ \E qs \in {<<Line(1, q)>> : q \in Quantities}
                       \cup {<<Line(1, 1), Line(2, q)>> : q \in Quantities} :
              ship_transfer_start(r, Staff, 1, qs)
        \/ ship_transfer(r)
        \/ \E qs \in {<<Line(1, q)>> : q \in Quantities} :
              receive_transfer_start(r, DestStaff, 1, qs)
        \/ receive_transfer(r)

SpecTransfer == Init /\ [][NextTransfer]_vars

Purchaser == [role |-> PURCHASE, branch_id |-> NoBranch]
Finance == [role |-> FINANCE, branch_id |-> NoBranch]
Admin == [role |-> ADMIN, branch_id |-> NoBranch]

POLine(p, q, c) == [product_id |-> p, quantity |-> q, unit_cost |-> c]
Received(p, q) == [product_id |-> p, received_qty |-> q]

\* Purchase orders for branch 1: creation, the finance decision and the
\* receipt of order 1 by staff of branch 1 and of branch 2, with product 2
\* leaving the catalogue.
NextPO ==
    \/ \E r \in Req :
        \/ \E items \in {<<POLine(1, q, 2400)>> : q \in Quantities}
                          \cup {<<POLine(1, 1, 2400), POLine(2, 1, 2600)>>} :
              create_po_start(r, Purchaser, 1, 1, items)
        \/ create_po(r)
        \/ approve_po_start(r, Finance, 1)
        \/ approve_po(r)
        \/ reject_po_start(r, Finance, 1)
        \/ reject_po(r)
        \/ \E items \in {<<Received(1, q)>> : q \in Quantities}
                          \cup {<<Received(1, 1), Received(2, 1)>>} :
              receive_goods_start(r, Staff, 1, items)
        \/ receive_goods_start(r, DestStaff, 1, <<Received(1, 1)>>)
        \/ receive_goods(r)
    \/ delete_product(Admin, 2)

SpecPO == Init /\ [][NextPO]_vars

\* Sales one at a time: a request starts when the one before it has
\* answered.  Besides the sales paid in full there are a discounted sale, a
\* discount above the subtotal, a payment below the total and a sale of two
\* products.
NextSalesSeq ==
    \/ \E q \in Quantities :
          create_sale_start(1, Cashier, <<Line(1, q)>>, 0, Paid)
    \/ create_sale_start(1, Cashier, <<Line(1, 1)>>, 10, 50)
    \/ create_sale_start(1, Cashier, <<Line(1, 1)>>, 100, Paid)
    \/ create_sale_start(1, Cashier, <<Line(1, 2)>>, 0, 50)
    \/ create_sale_start(1, Cashier, <<Line(1, 1), Line(2, 1)>>, 10, Paid)
    \/ create_sale(1)
    \/ \E id \in 1 .. 2 : cancel_sale_start(1, Manager, id, CancelText)
    \/ cancel_sale(1)

SpecSalesSeq == Init /\ [][NextSalesSeq]_vars

\* Purchase orders one at a time.  Receipts name product 1, product 2 or twice product 2, with
\* quantities from 0.
NextPOSeq ==
    \/ \E items \in {<<POLine(1, q, 2400)>> : q \in Quantities}
                      \cup {<<POLine(1, 1, 2400), POLine(2, 1, 2600)>>} :
          create_po_start(1, Purchaser, 1, 1, items)
    \/ create_po(1)
    \/ approve_po_start(1, Finance, 1)
    \/ approve_po(1)
    \/ \E items \in {<<Received(1, q)>> : q \in 0 .. MaxQty}
                      \cup {<<Received(1, 1), Received(2, q)>> : q \in Quantities}
                      \cup {<<Received(2, 1), Received(2, 1)>>} :
          receive_goods_start(1, Staff, 1, items)
    \/ receive_goods(1)

SpecPOSeq == Init /\ [][NextPOSeq]_vars

\* Every status-changing operation on sale 1, order 1 and transfer 1, each
\* with one fixed request.
NextStatus ==
    \E r \in Req :
        \/ create_sale_start(r, Cashier, <<Line(1, 1)>>, 0, Paid)
        \/ create_sale(r)
        \/ cancel_sale_start(r, Manager, 1, CancelText)
        \/ cancel_sale(r)
        \/ \E items \in {<<POLine(1, 1, 2400)>>,
                          <<POLine(1, 1, 2400), POLine(2, 1, 2600)>>} :
              create_po_start(r, Purchaser, 1, 1, items)
        \/ create_po(r)
        \/ approve_po_start(r, Finance, 1)
        \/ approve_po(r)
        \/ reject_po_start(r, Finance, 1)
        \/ reject_po(r)
        \/ receive_goods_start(r, Staff, 1, <<Received(1, 1)>>)
        \/ receive_goods(r)
        \/ create_transfer_request_start(r, Manager, 1, 2, <<Line(1, 1)>>,
                                         ReasonText)
        \/ create_transfer_request(r)
        \/ approve_transfer_start(r, Manager, 1, <<>>)
        \/ approve_transfer(r)
        \/ reject_transfer_start(r, Manager, 1, ReasonText)
        \/ reject_transfer(r)
        \/ ship_transfer_start(r, Staff, 1, <<Line(1, 1)>>)
        \/ ship_transfer(r)
        \/ receive_transfer_start(r, DestStaff, 1, <<Line(1, 1)>>)
        \/ receive_transfer(r)

SpecStatus == Init /\ [][NextStatus]_vars

\* The transfer workflow one request at a time: requests from branch 1 to
\* branch 2 and to branch 1 itself, with one, two or no items; approvals with
\* and without a list; shipments and receipts naming product 1 or product 2.
NextTransferSeq ==
    \/ \E items \in {<<Line(1, q)>> : q \in Quantities}
                      \cup {<<Line(1, 1), Line(2, 1)>>, <<>>} :
          create_transfer_request_start(1, Manager, 1, 2, items, ReasonText)
    \/ create_transfer_request_start(1, Manager, 1, 1, <<Line(1, 1)>>,
                                     ReasonText)
    \/ create_transfer_request(1)
    \/ \E qs \in {<<>>} \cup {<<Line(1, q)>> : q \in Quantities} :
          approve_transfer_start(1, Manager, 1, qs)
    \/ approve_transfer(1)
    \/ \E qs \in {<<Line(1, q)>> : q \in Quantities} \cup {<<Line(2, 1)>>} :
          ship_transfer_start(1, Staff, 1, qs)
    \/ ship_transfer(1)
    \/ \E qs \in {<<Line(1, q)>> : q \in Quantities} \cup {<<Line(2, 1)>>} :
          receive_transfer_start(1, DestStaff, 1, qs)
    \/ receive_transfer(1)

SpecTransferSeq == Init /\ [][NextTransferSeq]_vars

\* A transfer from branch 1 to branch 2 as approve_transfer stores it when
\* the manager approves the requested quantities.
ApprovedTransfer(items) ==
    [from_branch_id |-> 1, to_branch_id |-> 2,
     items |-> [k \in DOMAIN items |->
                  [product_id |-> items[k].product_id,
                   quantity_requested |-> items[k].quantity,
                   quantity_approved |-> items[k].quantity,
                   quantity_sent |-> 0,
                   quantity_received |-> 0]],
     status |-> "Approved",
     requested_by |-> Manager, approved_by |-> Manager,
     shipped_by |-> NoUser, received_by |-> NoUser,
     rejection_reason |-> <<>>]

\* An order of one unit of each product for branch 1 as create_po stores it.
SentOrder ==
    [supplier_id |-> 1, target_branch |-> 1,
     items |-> [p \in Products |->
                  [product_id |-> p, ordered_quantity |-> 1,
                   received_quantity |-> 0, unit_cost |-> 2400,
                   total_cost |-> 2400]],
     total_amount |-> 4800, status |-> InitialPOStatus(4800),
     created_by |-> Purchaser, approved_by |-> NoUser, received_at |-> FALSE]

\* The system once two transfers from branch 1 have been requested and
\* approved and an order for branch 1 has been sent: each transfer passed the
\* stock check of its own request, nothing is reserved, and together the
\* transfers may ask for more of a product than the branch holds.
InitRetry ==
    /\ \E q1 \in 1 .. MaxStock, q2 \in 0 .. MaxStock :
          inventory =
            IF q2 = 0
              THEN <<[product_id |-> 1, branch_id |-> 1, quantity |-> q1]>>
              ELSE <<[product_id |-> 1, branch_id |-> 1, quantity |-> q1],
                     [product_id |-> 2, branch_id |-> 1, quantity |-> q2]>>
    /\ products = Products
    /\ sales = <<>>
    /\ adjustment_logs = <<>>
    /\ purchase_orders = <<SentOrder>>
    /\ \E p \in Products, q \in Quantities :
        \E items \in {<<Line(1, 1)>>, <<Line(2, 1)>>,
                       <<Line(1, 1), Line(2, 1)>>} :
          /\ q <= Quantity(p, 1)
          /\ \A k \in DOMAIN items : 1 <= Quantity(items[k].product_id, 1)
          /\ stock_transfers = <<ApprovedTransfer(<<Line(p, q)>>),
                                 ApprovedTransfer(items)>>
    /\ req = [r \in Req |-> IdleReq]
    /\ last = IdleReq
    /\ nreq = 0
    /\ failed = FALSE
    /\ users = {AdminAccount}
    /\ applied = [k \in (Causes \cup Counts) \X Ids \X Products \X Branches |->
                    IF k[1] = "init" /\ k[2] = 0 /\ FindOne(k[3], k[4]) # 0
                      THEN inventory[FindOne(k[3], k[4])].quantity ELSE 0]

\* Shipments of the two transfers, each with its approved quantities, and
\* the receipt of the order, which replenishes a product at branch 1; one
\* request at a time.
NextRetry ==
    \/ \E id \in 1 .. 2 :
          ship_transfer_start(1, Staff, id,
              [k \in DOMAIN stock_transfers[id].items |->
                  Line(stock_transfers[id].items[k].product_id,
                       stock_transfers[id].items[k].quantity_approved)])
    \/ ship_transfer(1)
    \/ \E p \in Products : receive_goods_start(1, Staff, 1, <<Received(p, 1)>>)
    \/ receive_goods(1)

SpecRetry == InitRetry /\ [][NextRetry]_vars

\* Manual adjustments at branch 1 by its manager, one request at a time.
NextAdjustSeq ==
    \/ \E p \in Products, q \in Quantities, reason \in {"damaged", "theft"} :
          adjust_stock_start(1, Manager, p, q, reason)
    \/ adjust_stock(1)

SpecAdjustSeq == Init /\ [][NextAdjustSeq]_vars

\* The four operations that write the ledger of branch 1 outside the
\* transfer workflow, on either product, with two requests in flight: sales
\* and their cancellation, adjustments, and the receipt of an order.
NextKeys ==
    \E r \in Req :
        \/ \E p \in Products : create_sale_start(r, Cashier, <<Line(p, 1)>>, 0, Paid)
        \/ create_sale(r)
        \/ cancel_sale_start(r, Manager, 1, CancelText)
        \/ cancel_sale(r)
        \/ \E p \in Products : adjust_stock_start(r, Manager, p, 1, "damaged")
        \/ adjust_stock(r)
        \/ create_po_start(r, Purchaser, 1, 1, <<POLine(1, 1, 2400)>>)
        \/ create_po(r)
        \/ \E p \in Products : receive_goods_start(r, Staff, 1, <<Received(p, 1)>>)
        \/ receive_goods(r)

SpecKeys == Init /\ [][NextKeys]_vars

\* Users of five roles: the store roles at branch 1.
Actors == {Finance, Purchaser, Manager, Staff, Cashier}

\* Every role-gated operation requested by every actor, one request at a
\* time, on order 1, transfer 1 and sale 1; a cancellation by the System
\* Administrator; and an adjustment of quantity 0 by the cashier.
NextRoles ==
    \/ \E user \in Actors :
        \/ create_po_start(1, user, 1, 1,
                           <<POLine(1, 1, 2400), POLine(2, 1, 2600)>>)
        \/ approve_po_start(1, user, 1)
        \/ reject_po_start(1, user, 1)
        \/ create_transfer_request_start(1, user, 1, 2, <<Line(1, 1)>>,
                                         ReasonText)
        \/ approve_transfer_start(1, user, 1, <<>>)
        \/ reject_transfer_start(1, user, 1, ReasonText)
        \/ adjust_stock_start(1, user, 1, 1, "damaged")
        \/ create_sale_start(1, user, <<Line(1, 1)>>, 0, Paid)
        \/ cancel_sale_start(1, user, 1, CancelText)
    \/ cancel_sale_start(1, Admin, 1, CancelText)
    \/ adjust_stock_start(1, Cashier, 1, 0, "damaged")
    \/ create_po(1)
    \/ approve_po(1)
    \/ reject_po(1)
    \/ create_transfer_request(1)
    \/ approve_transfer(1)
    \/ reject_transfer(1)
    \/ adjust_stock(1)
    \/ create_sale(1)
    \/ cancel_sale(1)

SpecRoles == Init /\ [][NextRoles]_vars

DestManager == [role |-> STORE_MANAGER, branch_id |-> 2]
Unassigned == [role |-> STORE_MANAGER, branch_id |-> NoBranch]

\* Transfer 1 from branch 1 to branch 2 and sale 1 of branch 1, with
\* managers and staff of both branches and a manager of no branch acting on
\* them, one request at a time.
NextBranch ==
    \/ \E user \in {Manager, DestManager, Unassigned} :
        \/ create_transfer_request_start(1, user, 1, 2, <<Line(1, 1)>>,
                                         ReasonText)
        \/ approve_transfer_start(1, user, 1, <<>>)
        \/ reject_transfer_start(1, user, 1, ReasonText)
        \/ cancel_sale_start(1, user, 1, CancelText)
    \/ \E user \in {Staff, DestStaff} :
        \/ ship_transfer_start(1, user, 1, <<Line(1, 1)>>)
        \/ receive_transfer_start(1, user, 1, <<Line(1, 1)>>)
    \/ create_sale_start(1, Cashier, <<Line(1, 1)>>, 0, Paid)
    \/ create_transfer_request(1)
    \/ approve_transfer(1)
    \/ reject_transfer(1)
    \/ ship_transfer(1)
    \/ receive_transfer(1)
    \/ create_sale(1)
    \/ cancel_sale(1)

SpecBranch == Init /\ [][NextBranch]_vars

\* Every operation that writes the inventory collection, and the deletion
\* of a product, on product 1 at branch 1 and its transfer to branch 2; one
\* request at a time.
NextRecords ==
    \/ \E q \in Quantities :
        \/ create_sale_start(1, Cashier, <<Line(1, q)>>, 0, Paid)
        \/ adjust_stock_start(1, Manager, 1, q, "expired")
        \/ create_transfer_request_start(1, Manager, 1, 2, <<Line(1, q)>>,
                                         ReasonText)
        \/ ship_transfer_start(1, Staff, 1, <<Line(1, q)>>)
    \/ approve_transfer_start(1, Manager, 1, <<>>)
    \/ receive_transfer_start(1, DestStaff, 1, <<Line(1, 1)>>)
    \/ cancel_sale_start(1, Manager, 1, CancelText)
    \/ create_po_start(1, Purchaser, 1, 1, <<POLine(1, 1, 2400)>>)
    \/ receive_goods_start(1, Staff, 1, <<Received(1, 1)>>)
    \/ create_sale(1)
    \/ adjust_stock(1)
    \/ create_transfer_request(1)
    \/ approve_transfer(1)
    \/ ship_transfer(1)
    \/ receive_transfer(1)
    \/ cancel_sale(1)
    \/ create_po(1)
    \/ receive_goods(1)
    \/ Quiescent /\ delete_product(Admin, 1)

SpecRecords == Init /\ [][NextRecords]_vars

\* Invitations, password set-ups and status changes, one request at a time.
InviteTokens ==
    {create_invite_token(e) : e \in 1 .. 2} \cup
    {[sub |-> 1, type |-> "reset"]}

NextInvite ==
    \/ \E email \in 0 .. 2 : create_user_start(1, Admin, email, Cashier)
    \/ create_user_start(1, Manager, 1, Cashier)
    \/ create_user(1)
    \/ \E token \in InviteTokens : setup_password_start(1, token, 1)
    \/ setup_password(1)
    \/ \E user_id \in 0 .. MaxRequests, active \in BOOLEAN :
          change_user_status_start(1, Admin, user_id, active)
    \/ change_user_status_start(1, Manager, 1, TRUE)
    \/ change_user_status(1)

SpecInvite == Init /\ [][NextInvite]_vars

\* Sales one at a time whose lines may name the same product more than once.
SaleLines ==
    {<<Line(1, q)>> : q \in Quantities} \cup
    {<<Line(1, q1), Line(1, q2)>> : q1 \in Quantities, q2 \in Quantities} \cup
    {<<Line(1, 1), Line(2, 1)>>, <<Line(1, 1), Line(2, 1), Line(1, 1)>>}

NextSaleLines ==
    \/ \E items \in SaleLines : create_sale_start(1, Cashier, items, 0, Paid)
    \/ create_sale(1)

SpecSaleLines == Init /\ [][NextSaleLines]_vars

(***************************************************************************)
(* Properties.                                                             *)
(***************************************************************************)
\* C1: in every reachable state, under any interleaving of create_sale,
\* ship_transfer and adjust_stock requests on the same (product, branch),
\* the stored quantity of every inventory record is >= 0.
QuantityNeverNegative ==
    \A k \in DOMAIN inventory : inventory[k].quantity >= 0

\* C2: mutations of one (product, branch) record are linearizable: once the
\* requests have all answered, and all with success, the stored quantity is
\* the initial quantity plus the sum of their deltas.
NoLostUpdate ==
    (Quiescent /\ ~failed) =>
        \A p \in Products, b \in Branches : Quantity(p, b) = AppliedTo(p, b)

\* quantity_sold of sale s summed over its lines for product p.
RECURSIVE SoldOf(_, _)
SoldOf(items, p) ==
    IF items = <<>> THEN 0
    ELSE (IF Head(items).product_id = p THEN Head(items).quantity_sold ELSE 0)
         + SoldOf(Tail(items), p)

\* C3: once the cancel_sale requests have answered, the line quantities of
\* every sale have been credited back to the ledger exactly once if the sale
\* is Cancelled and not at all otherwise.
CancelCreditsExactlyOnce ==
    Quiescent =>
        \A s \in DOMAIN sales, p \in Products :
            applied[<<"cancel", s, p, sales[s].branch_id>>] =
                IF sales[s].status = "Cancelled"
                  THEN SoldOf(sales[s].items, p) ELSE 0

\* C6: create_sale is all-or-nothing: in every state, a Completed sale is
\* recorded exactly when the deduction of each of its lines has been applied.
SaleRecordedIffDeducted ==
    \A s \in DOMAIN sales, p \in Products :
        sales[s].status = "Completed" =>
            applied[<<"sale", s, p, sales[s].branch_id>>]
                = 0 - SoldOf(sales[s].items, p)

\* received_quantity of an order summed over its items for product p.
RECURSIVE ReceivedOf(_, _)
ReceivedOf(items, p) ==
    IF items = <<>> THEN 0
    ELSE (IF Head(items).product_id = p
            THEN Head(items).received_quantity ELSE 0)
         + ReceivedOf(Tail(items), p)

\* C4: a purchase-order receipt is never double-counted: once the
\* receive_goods requests have answered, all with success, the quantity added
\* to the target branch because of an order equals, per product, the
\* received_quantity recorded on the order.
ReceiptCountedOnce ==
    (Quiescent /\ ~failed) =>
        \A o \in DOMAIN purchase_orders, p \in Products :
            applied[<<"po", o, p, purchase_orders[o].target_branch>>]
                = ReceivedOf(purchase_orders[o].items, p)

\* C5: a transfer shipment is never double-counted: with no request failing,
\* the source branch is debited for a transfer and product at most once.
ShipmentDebitedOnce ==
    ~failed =>
        \A t \in DOMAIN stock_transfers, p \in Products :
            applied[<<"ship_n", t, p, stock_transfers[t].from_branch_id>>] <= 1

\* C7: receive_goods is all-or-nothing: a receive_goods request that fails
\* has written nothing (no inventory quantity, no new inventory record, no
\* change of the order).
ReceiveGoodsAllOrNothing ==
    (last.op = "receive_goods" /\ last.result # "ok") => last.writes = 0

\* C8: ship_transfer is all-or-nothing: a ship_transfer request that fails
\* with InsufficientStock has written nothing.
ShipTransferAllOrNothing ==
    (last.op = "ship_transfer" /\ last.result = "InsufficientStock")
        => last.writes = 0

\* C9: in every reachable state every item of every stock transfer has
\* quantity_received <= quantity_sent <= quantity_approved
\* <= quantity_requested.
TransferQuantitiesOrdered ==
    \A t \in DOMAIN stock_transfers :
        \A k \in DOMAIN stock_transfers[t].items :
            LET item == stock_transfers[t].items[k]
            IN  /\ item.quantity_received <= item.quantity_sent
                /\ item.quantity_sent <= item.quantity_approved
                /\ item.quantity_approved <= item.quantity_requested

\* C10: in every reachable state every purchase-order item has
\* received_quantity <= ordered_quantity.
ReceivedAtMostOrdered ==
    \A o \in DOMAIN purchase_orders :
        \A k \in DOMAIN purchase_orders[o].items :
            purchase_orders[o].items[k].received_quantity
                <= purchase_orders[o].items[k].ordered_quantity

\* The source statuses the specification permits for each status-changing
\* operation.
PermittedSource ==
    [op \in {"approve_po", "reject_po", "receive_goods", "approve_transfer",
             "reject_transfer", "ship_transfer", "receive_transfer",
             "cancel_sale"} |->
        CASE op \in {"approve_po", "reject_po"} -> {"Pending Approval"}
          [] op = "receive_goods" -> {"Sent", "Approved"}
          [] op \in {"approve_transfer", "reject_transfer"} -> {"Pending"}
          [] op = "ship_transfer" -> {"Approved"}
          [] op = "receive_transfer" -> {"In Transit"}
          [] op = "cancel_sale" -> {"Completed"}]

\* The collection request r targets, and whether its actor may act on the
\* entity it names.
TargetOf(r) ==
    CASE req[r].op \in {"approve_po", "reject_po", "receive_goods"}
           -> purchase_orders
      [] req[r].op = "cancel_sale" -> sales
      [] OTHER -> stock_transfers

AuthorizedFor(r) ==
    LET e == TargetOf(r)[req[r].id]
        b == req[r].user.branch_id
    IN  CASE req[r].op \in {"approve_transfer", "ship_transfer"}
               -> b = e.from_branch_id
          [] req[r].op = "receive_transfer" -> b = e.to_branch_id
          [] req[r].op = "reject_transfer"
               -> b \in {e.from_branch_id, e.to_branch_id}
          [] req[r].op = "cancel_sale"
               -> req[r].user.role = ADMIN \/ b = e.branch_id
          [] OTHER -> TRUE

\* C11: when an authorized actor's approve_po, reject_po, receive_goods,
\* approve_transfer, reject_transfer, ship_transfer, receive_transfer or
\* cancel_sale reads its entity in a status that is not a permitted source
\* status of the operation, the request fails as an invalid transition, has
\* written nothing and leaves every order, transfer, sale and inventory
\* quantity unchanged.
InvalidTransitionRejected ==
    [][\A r \in Req :
          (/\ req[r].op \in DOMAIN PermittedSource
           /\ req[r].pc \in {"get_po", "get_transfer", "get_sale"}
           /\ req[r].id \in DOMAIN TargetOf(r)
           /\ AuthorizedFor(r)
           /\ TargetOf(r)[req[r].id].status \notin PermittedSource[req[r].op]
           /\ req'[r] # req[r])
          => (/\ last'.op = req[r].op
              /\ last'.result = "InvalidTransition"
              /\ last'.writes = 0
              /\ db' = db)]_vars

InvalidTransitionSeen ==
    /\ last.op = "ship_transfer"
    /\ last.result = "InvalidTransition"
    /\ last.id \in DOMAIN stock_transfers
    /\ stock_transfers[last.id].status = "In Transit"

\* C12: under any interleaving, the stored status of a purchase order changes
\* only along Pending Approval -> Approved, Pending Approval -> Rejected,
\* Sent -> Received and Approved -> Received; Received and Rejected are
\* never left.
POStatusFollowsEdges ==
    [][\A o \in DOMAIN purchase_orders :
          purchase_orders'[o].status # purchase_orders[o].status
            => <<purchase_orders[o].status, purchase_orders'[o].status>> \in
                 {<<"Pending Approval", "Approved">>,
                  <<"Pending Approval", "Rejected">>,
                  <<"Sent", "Received">>,
                  <<"Approved", "Received">>}]_vars

\* C13: under any interleaving, the stored status of a stock transfer changes
\* only along Pending -> Approved, Pending -> Rejected, Approved -> In Transit
\* and In Transit -> Completed; Completed and Rejected are never left.
TransferStatusFollowsEdges ==
    [][\A t \in DOMAIN stock_transfers :
          stock_transfers'[t].status # stock_transfers[t].status
            => <<stock_transfers[t].status, stock_transfers'[t].status>> \in
                 {<<"Pending", "Approved">>,
                  <<"Pending", "Rejected">>,
                  <<"Approved", "In Transit">>,
                  <<"In Transit", "Completed">>}]_vars

\* C14: in every reachable state there is at most one inventory record per
\* (product_id, branch_id).
InventoryKeyUnique ==
    \A j, k \in DOMAIN inventory :
        (/\ inventory[j].product_id = inventory[k].product_id
         /\ inventory[j].branch_id = inventory[k].branch_id) => j = k

\* C15: a purchase order can be received in several calls: a receive_goods
\* request is not turned away as an invalid transition from an order that a
\* first receipt left with an item still short of its ordered quantity.
PartialReceiptStaysOpen ==
    (/\ last.op = "receive_goods"
     /\ last.result = "InvalidTransition"
     /\ last.id \in DOMAIN purchase_orders)
    => ~(/\ purchase_orders[last.id].status = "Received"
         /\ \E k \in DOMAIN purchase_orders[last.id].items :
              LET item == purchase_orders[last.id].items[k]
              IN  /\ item.received_quantity > 0
                  /\ item.received_quantity < item.ordered_quantity)

\* C16: receive_goods is scoped to the order's target branch: a request by
\* store staff or a store manager of another branch fails (as Forbidden, in
\* the specification's words) and has written nothing.
ReceiveGoodsOwnBranch ==
    (/\ last.op = "receive_goods"
     /\ last.user.role \in {STORE_STAFF, STORE_MANAGER}
     /\ last.id \in DOMAIN purchase_orders
     /\ last.user.branch_id # purchase_orders[last.id].target_branch)
    => (last.result # "ok" /\ last.writes = 0)

\* The sum over the items of an order of ordered_quantity x unit_cost.
RECURSIVE OrderedCost(_)
OrderedCost(items) ==
    IF items = <<>> THEN 0
    ELSE Head(items).ordered_quantity * Head(items).unit_cost
         + OrderedCost(Tail(items))

RECURSIVE ReceivedQty(_, _)
ReceivedQty(lines, p) ==
    IF lines = <<>> THEN 0
    ELSE (IF Head(lines).product_id = p THEN Head(lines).received_qty ELSE 0)
         + ReceivedQty(Tail(lines), p)

\* C18: a successful receive_goods, running with no other request in flight,
\* leaves the quantity of every product at the order's target branch at what
\* it was when the request arrived plus the received_qty of the lines for the
\* product, with an inventory record for every received product, leaves the
\* other branches as they were, and stores the order as Received with
\* received_at set.
ReceiveGoodsEffect ==
    [][\A r \in Req :
          (/\ req[r].op = "receive_goods"
           /\ req'[r].pc = "idle"
           /\ last'.result = "ok")
          => LET po == purchase_orders'[req[r].id]
                 b == po.target_branch
             IN  /\ purchase_orders[req[r].id].status \in {"Sent", "Approved"}
                 /\ \A p \in Products :
                      /\ QuantityIn(inventory', p, b)
                           = QuantityIn(req[r].before, p, b)
                               + ReceivedQty(req[r].items, p)
                      /\ (\E k \in DOMAIN req[r].items :
                             req[r].items[k].product_id = p)
                           => FindOneIn(inventory', p, b) # 0
                      /\ \A c \in Branches \ {b} :
                           QuantityIn(inventory', p, c)
                             = QuantityIn(req[r].before, p, c)
                 /\ po.status = "Received"
                 /\ po.received_at = TRUE]_vars

ReceivedAfterApproval ==
    /\ last.op = "receive_goods" /\ last.result = "ok"
    /\ Len(last.items) = 2
    /\ FindOne(2, 1) # 0 /\ inventory[FindOne(2, 1)].quantity = 2
    /\ purchase_orders[last.id].status = "Received"
    /\ purchase_orders[last.id].approved_by.role = FINANCE

\* C19: create_sale with a single line of quantity q for a product with
\* stock s at the actor's branch, paid in full and running with no other
\* request in flight: if a record exists and q <= s the request succeeds, its
\* sale is stored as Completed and the stock is s - q; otherwise the request
\* fails, has written nothing, and sales and stock are as they were.
SingleLineSale ==
    [][\A r \in Req :
          (/\ req[r].op = "create_sale"
           /\ Len(req[r].items) = 1
           /\ req[r].discount = 0
           /\ req[r].amount_paid = Paid
           /\ req'[r].pc = "idle")
          => LET p == req[r].items[1].product_id
                 q == req[r].items[1].quantity
                 b == req[r].user.branch_id
                 s == QuantityIn(req[r].before, p, b)
             IN  IF FindOneIn(req[r].before, p, b) # 0 /\ q <= s
                   THEN /\ last'.result = "ok"
                        /\ last'.id = Len(sales')
                        /\ sales'[last'.id].status = "Completed"
                        /\ sales'[last'.id].items[1].quantity_sold = q
                        /\ QuantityIn(inventory', p, b) = s - q
                   ELSE /\ last'.result \in {"InsufficientStock", "NotFound"}
                        /\ last'.writes = 0
                        /\ sales' = sales
                        /\ inventory' = req[r].before]_vars

SoldOut ==
    /\ last.op = "create_sale" /\ last.result = "ok"
    /\ Len(last.items) = 1 /\ last.items[1].quantity = MaxQty
    /\ Quantity(1, 1) = 0

\* line_total summed over the items of a sale.
RECURSIVE LineTotals(_)
LineTotals(items) ==
    IF items = <<>> THEN 0
    ELSE Head(items).line_total + LineTotals(Tail(items))

\* The amounts of a stored sale.
Amounts(sale) ==
    <<sale.items, sale.subtotal, sale.tax, sale.discount, sale.total_amount,
      sale.amount_paid, sale.change_given>>

\* C20: every stored sale has subtotal = the sum of its items' line_total,
\* line_total = quantity_sold x unit_price for every item,
\* total_amount = subtotal + tax - discount,
\* change_given = amount_paid - total_amount, discount <= subtotal,
\* amount_paid >= total_amount and change_given >= 0; and no step, cancel_sale
\* included, changes any of these amounts of a stored sale.
SaleAmounts ==
    [][/\ \A n \in DOMAIN sales' :
            LET sale == sales'[n]
            IN  /\ sale.subtotal = LineTotals(sale.items)
                /\ \A k \in DOMAIN sale.items :
                     sale.items[k].line_total
                       = sale.items[k].quantity_sold * sale.items[k].unit_price
                /\ sale.total_amount
                     = sale.subtotal + sale.tax - sale.discount
                /\ sale.change_given = sale.amount_paid - sale.total_amount
                /\ sale.discount <= sale.subtotal
                /\ sale.amount_paid >= sale.total_amount
                /\ sale.change_given >= 0
       /\ \A n \in DOMAIN sales : Amounts(sales'[n]) = Amounts(sales[n])]_vars

DiscountedSaleCancelled ==
    \E n \in DOMAIN sales :
        /\ sales[n].status = "Cancelled"
        /\ sales[n].discount = 10
        /\ sales[n].amount_paid = 50
        /\ sales[n].change_given = 17

\* "subtotal += line_total" over the lines of a request, at catalogue prices.
RECURSIVE RequestSubtotal(_)
RequestSubtotal(items) ==
    IF items = <<>> THEN 0
    ELSE Head(items).quantity * price[Head(items).product_id]
           + RequestSubtotal(Tail(items))

\* Every line of the request passes the stock check on the collection inv.
InStock(inv, items, b) ==
    \A k \in DOMAIN items :
        /\ FindOneIn(inv, items[k].product_id, b) # 0
        /\ QuantityIn(inv, items[k].product_id, b) >= items[k].quantity

\* C21: a create_sale whose discount exceeds the subtotal, or whose
\* amount_paid is below total_amount = subtotal + tax - discount, fails,
\* records no sale and leaves every inventory quantity unchanged; when its
\* lines pass the stock check, which comes first, the failure is a
\* validation error.  Requests run one at a time.
BadAmountsRejected ==
    [][\A r \in Req :
          LET subtotal == RequestSubtotal(req[r].items)
              total_amount == subtotal + Tax(subtotal) - req[r].discount
          IN  (/\ req[r].op = "create_sale"
               /\ \/ req[r].discount > subtotal
                  \/ req[r].amount_paid < total_amount
               /\ req'[r].pc = "idle")
              => /\ last'.result # "ok"
                 /\ last'.writes = 0
                 /\ sales' = sales
                 /\ inventory' = req[r].before
                 /\ InStock(req[r].before, req[r].items,
                            req[r].user.branch_id)
                      => last'.result = "ValidationError"]_vars

DiscountAboveSubtotalRefused ==
    /\ last.op = "create_sale" /\ last.result = "ValidationError"
    /\ last.discount > RequestSubtotal(last.items)
    /\ last.amount_paid = Paid
    /\ sales = <<>>
    /\ Quantity(1, 1) = MaxStock

\* C22: round trip: when a successful create_sale is followed, with no other
\* request in between, by a successful cancel_sale of that sale, every
\* (product, branch) quantity is again what it was before the sale, and the
\* sale is Cancelled with cancelled_by, cancelled_at and cancellation_reason
\* set.  Requests run one at a time.
SaleRoundTrip ==
    [][\A r \in Req :
          (/\ req[r].op = "cancel_sale"
           /\ req'[r].pc = "idle"
           /\ last'.result = "ok"
           /\ last.op = "create_sale" /\ last.result = "ok"
           /\ last.id = req[r].id)
          => /\ DOMAIN inventory' = DOMAIN last.before
             /\ \A p \in Products, b \in Branches :
                   /\ FindOneIn(inventory', p, b) = FindOneIn(last.before, p, b)
                   /\ QuantityIn(inventory', p, b)
                        = QuantityIn(last.before, p, b)
             /\ sales'[req[r].id].status = "Cancelled"
             /\ sales'[req[r].id].cancelled_by = req[r].user
             /\ sales'[req[r].id].cancelled_at = TRUE
             /\ sales'[req[r].id].cancellation_reason = req[r].text
             /\ Len(req[r].text) >= 5]_vars

TwoProductSaleUndone ==
    /\ last.op = "cancel_sale" /\ last.result = "ok"
    /\ Len(sales) = 1 /\ Len(sales[1].items) = 2
    /\ sales[1].status = "Cancelled"
    /\ sales[1].cancelled_by = Manager
    /\ Quantity(1, 1) = MaxStock /\ Quantity(2, 1) = 1
    /\ applied[<<"init", 0, 1, 1>>] = MaxStock
    /\ applied[<<"init", 0, 2, 1>>] = 1

\* The transfer a request names has the single item of product p, the
\* request names the one quantity q of p, and q <= bound.
OneItem(r, p, q, bound) ==
    /\ req[r].id \in DOMAIN stock_transfers
    /\ Len(stock_transfers[req[r].id].items) = 1
    /\ stock_transfers[req[r].id].items[1].product_id = p
    /\ req[r].items = <<Line(p, q)>>
    /\ q <= bound

\* C23: for a transfer of one item requested r, approved a <= r, shipped
\* s <= a from a source holding at least s, and received v <= s: the request
\* and the approval change no quantity; the shipment succeeds, takes exactly
\* s from the source and leaves the destination alone; the receipt succeeds,
\* adds exactly v to the destination and leaves the source alone; the item
\* ends as (r, a, s, v) in a Completed transfer.  Requests run one at a time.
TransferLifecycle ==
    [][\A r \in Req : req'[r].pc = "idle" =>
          LET id == req[r].id
              t == stock_transfers[id]
              it == t.items[1]
              before == req[r].before
          IN  /\ req[r].op \in {"create_transfer_request", "approve_transfer"}
                   => inventory' = before
              /\ \A p \in Products, s \in Quantities :
                   (/\ req[r].op = "ship_transfer"
                    /\ OneItem(r, p, s, t.items[1].quantity_approved)
                    /\ t.status = "Approved"
                    /\ it.quantity_approved <= it.quantity_requested
                    /\ FindOneIn(before, p, t.from_branch_id) # 0
                    /\ QuantityIn(before, p, t.from_branch_id) >= s)
                   => /\ last'.result = "ok"
                      /\ QuantityIn(inventory', p, t.from_branch_id)
                           = QuantityIn(before, p, t.from_branch_id) - s
                      /\ FindOneIn(inventory', p, t.to_branch_id)
                           = FindOneIn(before, p, t.to_branch_id)
                      /\ QuantityIn(inventory', p, t.to_branch_id)
                           = QuantityIn(before, p, t.to_branch_id)
                      /\ stock_transfers'[id].status = "In Transit"
                      /\ stock_transfers'[id].items
                           = <<[it EXCEPT !.quantity_sent = s]>>
                      /\ it.quantity_received = 0
              /\ \A p \in Products, v \in Quantities :
                   (/\ req[r].op = "receive_transfer"
                    /\ OneItem(r, p, v, t.items[1].quantity_sent)
                    /\ t.status = "In Transit"
                    /\ it.quantity_sent <= it.quantity_approved
                    /\ it.quantity_approved <= it.quantity_requested)
                   => /\ last'.result = "ok"
                      /\ QuantityIn(inventory', p, t.to_branch_id)
                           = QuantityIn(before, p, t.to_branch_id) + v
                      /\ QuantityIn(inventory', p, t.from_branch_id)
                           = QuantityIn(before, p, t.from_branch_id)
                      /\ stock_transfers'[id].status = "Completed"
                      /\ stock_transfers'[id].items
                           = <<[it EXCEPT !.quantity_received = v]>>]_vars

TransferCompletedInOrder ==
    /\ last.op = "receive_transfer" /\ last.result = "ok"
    /\ stock_transfers[1].status = "Completed"
    /\ stock_transfers[1].items
         = <<[product_id |-> 1, quantity_requested |-> 2,
              quantity_approved |-> 2, quantity_sent |-> 1,
              quantity_received |-> 1]>>
    /\ Quantity(1, 1) = MaxStock - 1
    /\ Quantity(1, 2) = 1
    /\ applied[<<"init", 0, 1, 2>>] = 0

\* The request a step answers, with the inventory it arrived at: that of the
\* handler that leaves its slot, or the one refused on arrival; IdleReq when
\* the step answers none.
AnsweredRequest ==
    IF \E r \in Req : req[r].pc # "idle" /\ req'[r].pc = "idle"
      THEN req[CHOOSE r \in Req : req[r].pc # "idle" /\ req'[r].pc = "idle"]
    ELSE IF nreq' # nreq /\ req' = req
      THEN [last' EXCEPT !.before = inventory]
    ELSE IdleReq

\* The items of a new transfer for the requested lines.
RequestedItems(items) ==
    [k \in DOMAIN items |->
        [product_id |-> items[k].product_id,
         quantity_requested |-> items[k].quantity,
         quantity_approved |-> 0,
         quantity_sent |-> 0,
         quantity_received |-> 0]]

\* C24: a create_transfer_request succeeds only if its source and
\* destination differ and every requested quantity is at most the quantity
\* the source branch holds of that product; on success one transfer is
\* stored, Pending, with the requested quantities and approved = sent =
\* received = 0, and no inventory quantity has changed; on failure no
\* transfer is stored and nothing has changed.
CreateTransferRequestEffect ==
    [][LET q == AnsweredRequest
           from == q.doc.from_branch_id
           to == q.doc.to_branch_id
       IN  q.op = "create_transfer_request" =>
             /\ inventory' = q.before
             /\ last'.result = "ok" =>
                  /\ from # to
                  /\ \A k \in DOMAIN q.items :
                        q.items[k].quantity
                          <= QuantityIn(q.before, q.items[k].product_id, from)
                  /\ Len(stock_transfers') = Len(stock_transfers) + 1
                  /\ \A n \in DOMAIN stock_transfers :
                        stock_transfers'[n] = stock_transfers[n]
                  /\ LET t == stock_transfers'[Len(stock_transfers')]
                     IN  /\ t.status = "Pending"
                         /\ t.from_branch_id = from
                         /\ t.to_branch_id = to
                         /\ t.requested_by = q.user
                         /\ t.items = RequestedItems(q.items)
             /\ last'.result # "ok" =>
                  /\ stock_transfers' = stock_transfers
                  /\ last'.writes = 0]_vars

TwoItemRequestPending ==
    /\ last.op = "create_transfer_request" /\ last.result = "ok"
    /\ Len(stock_transfers) = 1
    /\ stock_transfers[1].status = "Pending"
    /\ Len(stock_transfers[1].items) = 2
    /\ stock_transfers[1].items[2].quantity_requested = 1
    /\ Quantity(2, 1) = 1

\* C25: after a successful approve_transfer the transfer is Approved with
\* approved_by the actor; with no approved_quantities every item has
\* quantity_approved = quantity_requested, and with a list every item has
\* quantity_approved <= quantity_requested.
ApproveTransferEffect ==
    [][\A r \in Req :
          (/\ req[r].op = "approve_transfer"
           /\ req'[r].pc = "idle"
           /\ last'.result = "ok")
          => LET t == stock_transfers'[req[r].id]
             IN  /\ t.status = "Approved"
                 /\ t.approved_by = req[r].user
                 /\ \A k \in DOMAIN t.items :
                       IF req[r].items = <<>>
                         THEN t.items[k].quantity_approved
                                = t.items[k].quantity_requested
                         ELSE t.items[k].quantity_approved
                                <= t.items[k].quantity_requested]_vars

\* C26: InsufficientStock at ship time is retryable.  A ship_transfer of an
\* Approved transfer whose source lacks a shipped quantity fails with
\* InsufficientStock and leaves the transfer as it was, Approved; one whose
\* source holds every shipped quantity (after a replenishment, say)
\* succeeds, and then the source has been debited for this transfer, over
\* all its attempts, exactly quantity_sent of every product.
ShipRetryDebitsOnce ==
    [][\A r \in Req :
          (/\ req[r].op = "ship_transfer"
           /\ req'[r].pc = "idle"
           /\ req[r].id \in DOMAIN stock_transfers
           /\ stock_transfers[req[r].id].status = "Approved"
           /\ stock_transfers[req[r].id].from_branch_id
                = req[r].user.branch_id)
          => LET id == req[r].id
                 from == stock_transfers[id].from_branch_id
             IN  IF InStock(req[r].before, req[r].items, from)
                   THEN /\ last'.result = "ok"
                        /\ stock_transfers'[id].status = "In Transit"
                        /\ \A k \in DOMAIN stock_transfers'[id].items :
                             LET it == stock_transfers'[id].items[k]
                             IN  0 - applied'[<<"ship", id, it.product_id,
                                                from>>]
                                   = it.quantity_sent
                   ELSE /\ last'.result = "InsufficientStock"
                        /\ stock_transfers' = stock_transfers]_vars

\* quantity_removed summed over the log entries of (p, b).
RECURSIVE RemovedOf(_, _, _)
RemovedOf(logs, p, b) ==
    IF logs = <<>> THEN 0
    ELSE (IF Head(logs).product_id = p /\ Head(logs).branch_id = b
            THEN Head(logs).quantity_removed ELSE 0)
           + RemovedOf(Tail(logs), p, b)

\* In this state the decrease of every key by adjustments is the sum of
\* quantity_removed over the key's log entries.
AdjustmentsMatchLog ==
    \A p \in Products, b \in Branches :
        0 - applied[<<"adjust", 0, p, b>>] = RemovedOf(adjustment_logs, p, b)

\* An adjust_stock of n units by a Store Manager, for a product with stock s
\* at the manager's branch: with a record and n <= s it succeeds, the stock
\* is s - n and exactly one entry (branch, product, user, n) is appended to
\* the log; otherwise it fails and stock and log are as they were.
AdjustStockEffect ==
    LET q == AnsweredRequest
        p == q.items[1].product_id
        n == q.items[1].quantity
        b == q.user.branch_id
        s == QuantityIn(q.before, p, b)
    IN  (/\ q.op = "adjust_stock"
         /\ q.user.role = STORE_MANAGER /\ b # NoBranch
         /\ StockAdjustmentSchema(n, q.reason))
        => IF FindOneIn(q.before, p, b) # 0 /\ n <= s
             THEN /\ last'.result = "ok"
                  /\ QuantityIn(inventory', p, b) = s - n
                  /\ adjustment_logs'
                       = Append(adjustment_logs,
                                AdjustmentLog(b, p, q.user, n, q.reason))
             ELSE /\ last'.result # "ok"
                  /\ inventory' = q.before
                  /\ adjustment_logs' = adjustment_logs

\* No step modifies or removes an existing log entry.
LogAppendOnly ==
    /\ Len(adjustment_logs') >= Len(adjustment_logs)
    /\ \A k \in DOMAIN adjustment_logs :
          adjustment_logs'[k] = adjustment_logs[k]

\* C27: adjust_stock by a Store Manager either removes the quantity and
\* appends exactly one matching AdjustmentLog entry, or fails and changes
\* neither stock nor log; in every reachable state the total decrease caused
\* by adjustments on a key equals the sum of quantity_removed over that
\* key's log entries; and no existing log entry is ever modified or removed.
AdjustmentsLogged ==
    /\ []AdjustmentsMatchLog
    /\ [][AdjustStockEffect /\ LogAppendOnly]_vars

\* The amount a receipt adds for product p: its lines of p summed.
RECURSIVE AmountOf(_, _)
AmountOf(items, p) ==
    IF items = <<>> THEN 0
    ELSE (IF Head(items).product_id # p THEN 0
          ELSE IF "received_qty" \in DOMAIN Head(items)
            THEN Head(items).received_qty
          ELSE Head(items).quantity)
           + AmountOf(Tail(items), p)

\* The branch whose ledger the answered request q works on, NoBranch when
\* the request does not get as far as the ledger.
LedgerBranch(q) ==
    CASE q.op \in {"create_sale", "adjust_stock"} -> q.user.branch_id
      [] q.op = "ship_transfer" ->
           IF /\ q.id \in DOMAIN stock_transfers
              /\ stock_transfers[q.id].status = "Approved"
              /\ stock_transfers[q.id].from_branch_id = q.user.branch_id
             THEN q.user.branch_id ELSE NoBranch
      [] q.op = "receive_transfer" ->
           IF q.id \in DOMAIN stock_transfers
             THEN stock_transfers[q.id].to_branch_id ELSE NoBranch
      [] q.op = "receive_goods" ->
           IF q.id \in DOMAIN purchase_orders
             THEN purchase_orders[q.id].target_branch ELSE NoBranch
      [] OTHER -> NoBranch

\* C28: the absent-record rule.  A create_sale, adjust_stock or ship_transfer
\* that reaches the ledger with a line for a (product, branch) pair that has
\* no inventory record (its other lines being in stock) fails with NotFound,
\* creates no record and does not advance its workflow: no sale, no log
\* entry, no change of the transfer.  A successful receive_goods or
\* receive_transfer creates the record of every such pair, with quantity
\* the amount added.
AbsentRecordRule ==
    [][LET q == AnsweredRequest
           b == LedgerBranch(q)
           absent == {p \in Products :
                        /\ \E k \in DOMAIN q.items : q.items[k].product_id = p
                        /\ FindOneIn(q.before, p, b) = 0}
       IN  /\ (/\ q.op \in {"create_sale", "adjust_stock", "ship_transfer"}
               /\ b # NoBranch
               /\ absent # {}
               /\ \A k \in DOMAIN q.items :
                     \/ q.items[k].product_id \in absent
                     \/ QuantityIn(q.before, q.items[k].product_id, b)
                          >= q.items[k].quantity)
              => /\ last'.result = "NotFound"
                 /\ inventory' = q.before
                 /\ sales' = sales
                 /\ adjustment_logs' = adjustment_logs
                 /\ stock_transfers' = stock_transfers
           /\ (/\ q.op \in {"receive_goods", "receive_transfer"}
               /\ b # NoBranch
               /\ last'.result = "ok")
              => \A p \in absent :
                    /\ FindOneIn(inventory', p, b) # 0
                    /\ QuantityIn(inventory', p, b) = AmountOf(q.items, p)]_vars

\* The inventory documents a step writes: those changed and those inserted.
Written ==
    {k \in DOMAIN inventory' :
        k \notin DOMAIN inventory \/ inventory'[k] # inventory[k]}

\* The branch a running request writes the ledger of.
WrittenBranch(q) ==
    CASE q.op \in {"create_sale", "adjust_stock"} -> q.user.branch_id
      [] q.op = "cancel_sale" -> sales[q.id].branch_id
      [] q.op = "receive_goods" -> purchase_orders[q.id].target_branch
      [] OTHER -> NoBranch

\* The products a running request names: those of its lines, and for a
\* cancel_sale those of the sale's items.
NamedProducts(q) ==
    IF q.op = "cancel_sale"
      THEN {sales[q.id].items[k].product_id : k \in DOMAIN sales[q.id].items}
      ELSE {q.items[k].product_id : k \in DOMAIN q.items}

\* C29: the ledger keys are independent.  Every step of a create_sale,
\* cancel_sale or adjust_stock writes only inventory records of the
\* request's branch and of a product the request (or the cancelled sale)
\* names; every step of a receive_goods writes only records of the order's
\* target branch; no step removes a record, and every other record is left
\* exactly as it was.
LedgerKeysIndependent ==
    [][/\ DOMAIN inventory \subseteq DOMAIN inventory'
       /\ \A r \in Req :
            (/\ req'[r] # req[r]
             /\ req[r].op \in {"create_sale", "cancel_sale", "adjust_stock",
                               "receive_goods"})
            => \A k \in Written :
                  /\ inventory'[k].branch_id = WrittenBranch(req[r])
                  /\ inventory'[k].product_id \in NamedProducts(req[r])
                  /\ k \in DOMAIN inventory =>
                       /\ inventory'[k].branch_id = inventory[k].branch_id
                       /\ inventory'[k].product_id = inventory[k].product_id]_vars

OtherProductUntouched ==
    /\ last.op = "create_sale" /\ last.result = "ok"
    /\ last.items = <<Line(2, 1)>>
    /\ Len(inventory) = 2
    /\ inventory[1] = [product_id |-> 1, branch_id |-> 1, quantity |-> MaxStock]
    /\ inventory[2].product_id = 2 /\ inventory[2].quantity = 0
    /\ applied[<<"init", 0, 2, 1>>] = 1

\* The roles the specification admits to each gated operation.
GatedRoles ==
    [op \in {"create_po", "approve_po", "reject_po",
             "create_transfer_request", "approve_transfer",
             "reject_transfer", "adjust_stock", "create_sale",
             "cancel_sale"} |->
        CASE op = "create_po" -> {PURCHASE}
          [] op \in {"approve_po", "reject_po"} -> {FINANCE, ADMIN}
          [] op = "create_sale" -> {SALES_STAFF, STORE_MANAGER}
          [] op = "cancel_sale" -> {STORE_MANAGER, ADMIN}
          [] OTHER -> {STORE_MANAGER}]

\* The body of the answered request q passes the schema of its operation.
WellFormed(q) ==
    CASE q.op = "create_po" -> POCreateSchema(q.items)
      [] q.op = "create_transfer_request" -> StockTransferCreate(q.items, q.text)
      [] q.op = "approve_transfer" -> PositiveQuantities(q.items)
      [] q.op = "reject_transfer" -> StockTransferReject(q.text)
      [] q.op = "adjust_stock"
           -> StockAdjustmentSchema(q.items[1].quantity, q.reason)
      [] q.op = "create_sale" -> SaleCreate(q.items, q.discount, q.amount_paid)
      [] q.op = "cancel_sale" -> SaleCancelRequest(q.text)
      [] OTHER -> TRUE

BranchAdmitted(q) ==
    LET b == q.user.branch_id
    IN  CASE q.op = "create_transfer_request" -> b = q.doc.from_branch_id
          [] q.op \in {"approve_transfer", "ship_transfer"}
               -> b = stock_transfers[q.id].from_branch_id
          [] q.op = "receive_transfer" -> b = stock_transfers[q.id].to_branch_id
          [] q.op = "reject_transfer"
               -> b \in {stock_transfers[q.id].from_branch_id,
                         stock_transfers[q.id].to_branch_id}
          [] q.op = "cancel_sale"
               -> q.user.role # STORE_MANAGER \/ b = sales[q.id].branch_id
          [] OTHER -> TRUE

\* The entity the answered request q names exists (a new transfer needs
\* none).
Named(q) ==
    CASE q.op = "create_transfer_request" -> TRUE
      [] q.op = "cancel_sale" -> q.id \in DOMAIN sales
      [] OTHER -> q.id \in DOMAIN stock_transfers

\* C31: branch scoping.  create_transfer_request, approve_transfer and
\* ship_transfer succeed only for an actor of the transfer's from branch,
\* receive_transfer only for an actor of the to branch, reject_transfer only
\* for an actor of the from or the to branch, and cancel_sale by a Store
\* Manager only for a sale of the manager's branch; any other such request
\* fails, has written nothing and leaves every collection unchanged.
BranchScoping ==
    [][LET q == AnsweredRequest
       IN  (/\ q.op \in {"create_transfer_request", "approve_transfer",
                         "ship_transfer", "receive_transfer",
                         "reject_transfer", "cancel_sale"}
            /\ Named(q)
            /\ ~BranchAdmitted(q))
           => /\ last'.result # "ok"
              /\ last'.writes = 0
              /\ db' = db]_vars

SourceStaffMayNotReceive ==
    /\ last.op = "receive_transfer" /\ last.result = "Forbidden"
    /\ last.user = Staff
    /\ stock_transfers[1].status = "In Transit"
    /\ stock_transfers[1].to_branch_id = 2

\* C32: no operation deletes an inventory record: every document of the
\* collection is there after every step, with its product and branch, so a
\* (product, branch) pair that has a record has one in every later state;
\* a record whose quantity a sale, shipment or adjustment takes to 0 is
\* there after that step, with quantity 0.
RecordsNeverDeleted ==
    [][/\ \A k \in DOMAIN inventory :
            /\ k \in DOMAIN inventory'
            /\ inventory'[k].product_id = inventory[k].product_id
            /\ inventory'[k].branch_id = inventory[k].branch_id
       /\ \A p \in Products, b \in Branches :
            FindOne(p, b) # 0 => FindOneIn(inventory', p, b) = FindOne(p, b)
       /\ \A r \in Req : \A k \in DOMAIN inventory :
            (/\ req[r].op \in {"create_sale", "ship_transfer", "adjust_stock"}
             /\ req[r].pc = "save_inventory"
             /\ req[r].inventory = [id |-> k, quantity |-> 0]
             /\ req'[r] # req[r])
            => inventory'[k] = [inventory[k] EXCEPT !.quantity = 0]]_vars

EmptiedRecordKept ==
    /\ last.op = "ship_transfer" /\ last.result = "ok"
    /\ applied[<<"init", 0, 1, 1>>] = MaxStock
    /\ FindOne(1, 1) # 0
    /\ inventory[FindOne(1, 1)].quantity = 0
    /\ 1 \in products

\* A step of create_user: a failed delivery ends in an error with no user of
\* that email left; a delivered invitation leaves the account of that email
\* inactive; an invitation is refused as a duplicate only when a user of
\* that email exists.
InvitationOutcome ==
    LET q == AnsweredRequest
    IN  /\ (q.op = "create_user" /\ q.pc = "delete")
           => /\ last'.result # "ok"
              /\ \A u \in users' : u.email # q.email
        /\ (q.op = "create_user" /\ last'.result = "ok")
           => \E u \in users' : u.email = q.email /\ ~u.is_active
        /\ (q.op = "create_user" /\ q.result = "BadRequest")
           => \E u \in users : u.email = q.email

\* A step that makes an inactive account active answers a setup_password
\* request for that account's email.
ActivatedBySetupOnly ==
    \A u \in users, v \in users' :
        (v.user_id = u.user_id /\ ~u.is_active /\ v.is_active)
        => /\ AnsweredRequest.op = "setup_password"
           /\ AnsweredRequest.email = u.email

\* C33: invitation rollback.  When create_user has inserted the inactive
\* account and the delivery of the invitation fails, the request fails and no
\* user with that email exists afterwards, so that the email can be invited
\* again; when the delivery succeeds the account exists with is_active false,
\* and an account becomes active only through setup_password.
InvitationRollback ==
    [][InvitationOutcome /\ ActivatedBySetupOnly]_vars

\* C34: every accepted create_sale, also one executed alone, sells of each
\* product at most the stock before the sale: per product, the quantities of
\* all the lines of the request that name it sum to at most the quantity
\* the branch had when the request arrived; a request whose lines for one
\* product each fit the stock but together exceed it is rejected, and no
\* inventory quantity is ever negative.
SaleFitsStock ==
    /\ [](\A k \in DOMAIN inventory : inventory[k].quantity >= 0)
    /\ [][LET q == AnsweredRequest
          IN  (q.op = "create_sale" /\ last'.result = "ok")
              => \A p \in Products :
                    AmountOf(q.items, p)
                      <= QuantityIn(q.before, p, q.user.branch_id)]_vars

\* The sum of one field of the items of a transfer that name product p.
RECURSIVE SumField(_, _, _)
SumField(items, p, field) ==
    IF items = <<>> THEN 0
    ELSE (IF Head(items).product_id = p THEN Head(items)[field] ELSE 0)
           + SumField(Tail(items), p, field)

\* C35: shipment accounting.  After a successful ship_transfer, for every
\* product the source branch's quantity has gone down by exactly the sum of
\* quantity_sent recorded on the transfer's items for that product; a
\* product of actual_quantities that is no item of the transfer, or that is
\* listed twice, causes no deduction beyond what the transfer records.
ShipmentAccounting ==
    [][LET q == AnsweredRequest
       IN  (q.op = "ship_transfer" /\ last'.result = "ok")
           => LET transfer == stock_transfers'[q.id]
              IN  \A p \in Products :
                    QuantityIn(q.before, p, transfer.from_branch_id)
                      - QuantityIn(inventory', p, transfer.from_branch_id)
                    = SumField(transfer.items, p, "quantity_sent")]_vars

\* C36: receipt accounting.  After a successful receive_transfer, for every
\* product the destination branch's quantity has gone up by exactly the sum
\* of quantity_received recorded on the transfer's items for that product; a
\* product of received_quantities that is no item of the transfer, or that
\* is listed twice, adds nothing beyond what the transfer records.
ReceiptAccounting ==
    [][LET q == AnsweredRequest
       IN  (q.op = "receive_transfer" /\ last'.result = "ok")
           => LET transfer == stock_transfers'[q.id]
              IN  \A p \in Products :
                    QuantityIn(inventory', p, transfer.to_branch_id)
                      - QuantityIn(q.before, p, transfer.to_branch_id)
                    = SumField(transfer.items, p, "quantity_received")]_vars

\* What the handlers have added to the destination, and removed from the
\* source, because of transfer t, in units of product p.
AddedByTransfer(t, p) ==
    applied[<<"receive", t, p, 1>>] + applied[<<"receive", t, p, 2>>]

RemovedByTransfer(t, p) ==
    0 - (applied[<<"ship", t, p, 1>>] + applied[<<"ship", t, p, 2>>])

\* C37: transfers never create stock.  For every transfer and product, in
\* every reachable state, the total added to the destination because of the
\* transfer is at most the total removed from the source because of it,
\* also when ship_transfer is called with an empty or partial
\* actual_quantities list.
TransfersCreateNoStock ==
    \A t \in Ids, p \in Products :
        AddedByTransfer(t, p) <= RemovedByTransfer(t, p)

\* Some quantity has been added to the ledger because of order id.
ReceivedAgainst(id) ==
    \E p \in Products, b \in Branches : applied[<<"po", id, p, b>>] > 0

\* C38: the finance gate cannot be bypassed.  In every reachable state,
\* under any interleaving of approve_po, reject_po and receive_goods, an
\* order with total_amount >= 5000 because of which any quantity has been
\* added to the ledger has approved_by set and has status Approved or
\* Received, never Pending Approval or Rejected.
FinanceGate ==
    \A id \in DOMAIN purchase_orders :
        (purchase_orders[id].total_amount >= 5000 /\ ReceivedAgainst(id))
        => /\ purchase_orders[id].approved_by # NoUser
           /\ purchase_orders[id].status \in {"Approved", "Received"}

\* The operations that decide on or record orders and transfers.
PaperOps ==
    {"create_po", "approve_po", "reject_po", "create_transfer_request",
     "approve_transfer", "reject_transfer"}

\* C39: create_po, approve_po, reject_po, create_transfer_request,
\* approve_transfer and reject_transfer leave the ledger alone: no step of
\* such a request, from its arrival to its answer, whether it succeeds or
\* fails, changes the quantity of an inventory record or creates one.
NoLedgerEffect ==
    [][/\ \A r \in Req :
            (/\ req'[r] # req[r]
             /\ (req[r].op \in PaperOps \/ req'[r].op \in PaperOps))
            => inventory' = inventory
       /\ AnsweredRequest.op \in PaperOps => inventory' = inventory]_vars

ApprovalLeftLedger ==
    /\ last.op = "approve_transfer" /\ last.result = "ok"
    /\ stock_transfers[1].status = "Approved"
    /\ stock_transfers[1].items[1].quantity_approved = 1
    /\ failed
    /\ Quantity(1, 1) = MaxStock
    /\ applied[<<"init", 0, 1, 1>>] = MaxStock

=============================================================================
